---- MODULE Spec2Model ----
(***************************************************************************)
(* Kubarr: the embedded OAuth2/OIDC authorization server                   *)
(* (kubarr/core/oauth2_service.py, kubarr/core/security.py and the         *)
(* routers kubarr/api/routers/{auth,login,users}.py).                      *)
(*                                                                         *)
(* Every HTTP request runs in its own asyncio task with its own            *)
(* AsyncSession (kubarr/core/database.py, get_db).  A task can be          *)
(* suspended at every awaited database operation, so a handler is a        *)
(* sequence of steps: one step is one database operation together with     *)
(* the synchronous Python code that runs up to the next await.  No request *)
(* modelled here writes oauth2_clients, so the lookup of the client is     *)
(* taken together with the handler's next read; revoke_token's two lookups *)
(* are one step; a handler of user administration is one step.             *)
(***************************************************************************)
EXTENDS Integers, Sequences, FiniteSets, TLC

\* Python's None
Null == "None"

(***************************************************************************)
(* PKCE (kubarr/core/security.py, verify_pkce).                            *)
(* Strings are TLA+ strings; a digest is a sequence of 32 byte values.     *)
(***************************************************************************)

\* The code verifiers clients draw from.  VerifierA is the verifier of
\* RFC 7636 appendix B.
VerifierA == "dBjftJeZ4CVP-mB92K27uhbUJU1p1r_wW1gFWFOEjXk"
VerifierB == "kubarr-verifier-2"
VerifierC == "a"
Verifiers == {VerifierA, VerifierB, VerifierC}

\* hashlib.sha256(v.encode()).digest(), tabulated for the verifiers above.
Sha256(v) ==
  CASE v = VerifierA ->
         << 19, 211,  30, 150,  26,  26, 216, 236,  47,  22, 177,  12,  76, 152,  46,   8,
           118, 168, 120, 173, 109, 241,  68,  86, 110, 225, 137,  74, 203, 112, 249, 195>>
    [] v = VerifierB ->
         << 55, 157, 204, 114,   2, 185, 154,  52, 109,  85,  20,  51,  97, 174, 197,  56,
            20,  49, 197, 164, 171,  26, 248, 158,  36, 190, 223, 198, 161, 210, 146,  70>>
    [] v = VerifierC ->
         <<202, 151, 129,  18, 202,  27, 189, 202, 250, 194,  49, 179, 154,  35, 220,  77,
           167, 134, 239, 248,  20, 124,  78, 114, 185, 128, 119, 133, 175, 238,  72, 187>>

HexDigits == <<"0","1","2","3","4","5","6","7","8","9","a","b","c","d","e","f">>

\* bytes.hex(): two lower-case hexadecimal digits per byte.
RECURSIVE Hex(_)
Hex(bytes) ==
  IF bytes = <<>> THEN ""
  ELSE HexDigits[(Head(bytes) \div 16) + 1] \o HexDigits[(Head(bytes) % 16) + 1]
       \o Hex(Tail(bytes))

UrlSafeAlphabet ==
  <<"A","B","C","D","E","F","G","H","I","J","K","L","M","N","O","P","Q","R","S","T",
    "U","V","W","X","Y","Z","a","b","c","d","e","f","g","h","i","j","k","l","m","n",
    "o","p","q","r","s","t","u","v","w","x","y","z","0","1","2","3","4","5","6","7",
    "8","9","-","_">>

B64Char(sextet) == UrlSafeAlphabet[sextet + 1]

\* base64.urlsafe_b64encode(bytes).rstrip(b"="): the encoding RFC 7636
\* prescribes for the S256 challenge (24 bits -> 4 characters, no padding).
RECURSIVE Base64UrlNoPad(_)
Base64UrlNoPad(bytes) ==
  IF bytes = <<>> THEN ""
  ELSE IF Len(bytes) = 1 THEN
         B64Char(bytes[1] \div 4) \o B64Char((bytes[1] % 4) * 16)
  ELSE IF Len(bytes) = 2 THEN
         B64Char(bytes[1] \div 4)
         \o B64Char((bytes[1] % 4) * 16 + (bytes[2] \div 16))
         \o B64Char((bytes[2] % 16) * 4)
  ELSE   B64Char(bytes[1] \div 4)
         \o B64Char((bytes[1] % 4) * 16 + (bytes[2] \div 16))
         \o B64Char((bytes[2] % 16) * 4 + (bytes[3] \div 64))
         \o B64Char(bytes[3] % 64)
         \o Base64UrlNoPad(SubSeq(bytes, 4, Len(bytes)))

\* The challenge an RFC 7636 client sends for verifier v with method S256.
sha256_challenge(v) == Base64UrlNoPad(Sha256(v))

\* The challenge that is the hexadecimal digest of the verifier.
hex_challenge(v) == Hex(Sha256(v))

\* security.py verify_pkce
verify_pkce(code_verifier, code_challenge, method) ==
  IF method = "S256" THEN
    LET digest == Sha256(code_verifier)
        computed_challenge == Hex(digest)
    IN  computed_challenge = code_challenge
  ELSE IF method = "plain" THEN code_verifier = code_challenge
  ELSE FALSE

\* The methods a caller may name: the two of RFC 7636 and two unsupported.
PkceMethods == {"S256", "plain", "S512", ""}

\* The challenges a caller may present.
PkceChallenges ==
  {sha256_challenge(v) : v \in Verifiers}
    \cup {hex_challenge(v) : v \in Verifiers}
    \cup Verifiers

(***************************************************************************)
(* The persistent store (kubarr/core/models_auth.py).                      *)
(***************************************************************************)

\* Bounds of the model.
MaxTicks == 1            \* clock advances, when requests run one at a time
MaxCodes == 2            \* authorization codes issued
MaxTokens == 2           \* token pairs minted
MaxTicksConc == 1        \* the same three, when two requests run concurrently
MaxCodesConc == 1
MaxTokensConc == 3
MaxRoles == 4            \* roles in the table: the three seeded and one more

\* Lifetimes, in seconds.
CodeExpiresIn == 600               \* create_authorization_code(expires_in=600)
DefaultAccessExpiresIn == 3600     \* create_tokens(access_token_expires_in=3600)
DefaultRefreshExpiresIn == 604800  \* create_tokens(refresh_token_expires_in=604800)
jwt_access_token_expire == 3600    \* settings.jwt_access_token_expire
jwt_refresh_token_expire == 604800 \* settings.jwt_refresh_token_expire

\* The users of the users table after initial setup, by primary key, and the
\* rows a registration can add.
UserIds == {1, 2}
RegistrantIds == {3, 4}
AliasIds == {5}
AllUserIds == UserIds \cup RegistrantIds \cup AliasIds

\* User.username of each row; login_submit looks a user up by it.
\* The username of the user of AliasIds is the email address of alice.
UsernameOf(id) ==
  CASE id = 1 -> "admin" [] id = 2 -> "alice" [] id = 3 -> "bob" [] id = 4 -> "carol"
    [] OTHER -> "alice@example.com"

\* User.email of the users of initial setup, and the address each registrant
\* owns.
EmailOf(id) ==
  IF id \in AliasIds THEN "eve@example.com" ELSE UsernameOf(id) \o "@example.com"

\* passlib bcrypt: hash_password / verify_password (the salt is left out).
hash_password(plain) == <<"bcrypt", plain>>
verify_password(plain, hashed) == hashed = <<"bcrypt", plain>>
hash_client_secret(secret) == hash_password(secret)
verify_client_secret(plain, hashed) == verify_password(plain, hashed)

\* User.hashed_password of each row.
PasswordOf(id) == UsernameOf(id) \o "-password"
HashedPasswordOf(id) == hash_password(PasswordOf(id))

\* The oauth2_clients table: the oauth2-proxy client of initial setup and the
\* client of one installed app ({app}-oauth).  No request of the
\* authorization server writes this table.
oauth2_clients ==
  [c \in {"oauth2-proxy", "jellyseerr-oauth"} |->
     IF c = "oauth2-proxy"
     THEN [client_secret_hash |-> hash_client_secret("proxy-secret"),
           redirect_uris |-> {"https://kubarr/oauth2/callback",
                              "https://kubarr/oauth/callback"}]
     ELSE [client_secret_hash |-> hash_client_secret("seerr-secret"),
           redirect_uris |->
             {"http://localhost:8080/jellyseerr/api/v1/auth/oidc-callback"}]]

\* Python truthiness of an Optional[str].
Truthy(x) == x # Null /\ x # ""

\* s or default
OrElse(s, default) == IF Truthy(s) THEN s ELSE default

\* jose jwt.encode is a deterministic function of the claims: the claims are
\* serialised in a fixed order, datetimes are cut to whole seconds and RS256
\* signs with PKCS#1 v1.5, which has no randomness.  A token is modelled by
\* the string of its claims.
RECURSIVE jwt_encode(_)
jwt_encode(claims) ==
  IF claims = <<>> THEN "jwt"
  ELSE jwt_encode(SubSeq(claims, 1, Len(claims) - 1)) \o "." \o claims[Len(claims)]

\* create_tokens' call of create_access_token: sub, aud, scope, exp, iat.
\* (The username and email claims are functions of sub here.)
create_access_token(sub, aud, scope, t, expires_delta) ==
  jwt_encode(<<"sub=" \o ToString(sub), "aud=" \o aud,
               "scope=" \o OrElse(scope, "openid profile email"),
               "exp=" \o ToString(t + expires_delta), "iat=" \o ToString(t)>>)

\* create_tokens' call of create_refresh_token: sub, type, exp, iat.
create_refresh_token(sub, t, expires_delta) ==
  jwt_encode(<<"sub=" \o ToString(sub), "type=refresh",
               "exp=" \o ToString(t + expires_delta), "iat=" \o ToString(t)>>)

\* A token value this server never signed.
ForgedToken == "forged.jwt"

\* generate_authorization_code: secrets.token_hex(32); the n-th call returns
\* a value no earlier call returned.
generate_authorization_code(n) == "code-" \o ToString(n)

VARIABLES
  pkce,       \* the last verify_pkce call: its arguments and its result
  now,        \* datetime.utcnow(), in whole seconds
  ticks,      \* how often the clock has advanced
  users,      \* users table: id -> [exists, is_active, is_approved, is_admin]
  authCodes,  \* oauth2_authorization_codes table: a set of rows
  tokens,     \* oauth2_tokens table: a set of rows
  issued,     \* how many authorization codes generate_authorization_code made
  procs,      \* the request each task is handling and where it stands
  response,   \* the HTTP response being sent, else NoResponse
  codeReturns,  \* history: code -> how often validate_authorization_code returned it
  granted,      \* history: code or refresh token -> how many 200 responses
                \* POST /auth/token gave for it
  revokedPairs, \* history: the <<access, refresh>> pairs a revocation covered
  revokedAccess, \* history: the stored access tokens POST /auth/revoke was called with
  roles,      \* roles table: a set of rows [id, name, is_system]
  role_app_permissions,  \* role_app_permissions table: rows [role_id, app_name]
  user_roles, \* user_roles association table: rows [user_id, role_id]
  catalog,    \* AppCatalog._apps: app name -> [is_system]
  namespaces, \* the cluster: the app namespaces that exist
  removed,    \* history: the apps DeploymentManager.remove_app was invoked for
  invites,    \* invites table: a set of rows
  system_settings,  \* system_settings table: key -> value, Null without a row
  settings,   \* kubarr.api.config.settings: the configured token lifetimes
  registrations     \* history: the users register_submit created, and how

flowVars == <<now, ticks, users, authCodes, tokens, issued, procs, response,
              codeReturns, granted, revokedPairs, revokedAccess>>
rbacVars == <<roles, role_app_permissions, user_roles, catalog, namespaces, removed>>
regVars == <<invites, system_settings, registrations>>
sideVars == <<pkce, settings, rbacVars, regVars>>
appVars == <<roles, role_app_permissions, catalog, namespaces, removed, regVars>>
flowVarsButResponse == <<now, ticks, users, authCodes, tokens, issued, procs, codeReturns,
                         granted, revokedPairs, revokedAccess>>
vars == <<pkce, now, ticks, users, authCodes, tokens, issued, procs, response,
          codeReturns, granted, revokedPairs, revokedAccess, rbacVars, regVars, settings>>

Procs == {1, 2}
Idle == [pc |-> "idle"]
NoResponse == [endpoint |-> "none"]
PkceIdle == [called |-> FALSE]
NoUser == [exists |-> FALSE, is_active |-> FALSE, is_approved |-> FALSE, is_admin |-> FALSE, email |-> Null]

\* seed_default_roles: the three system roles, in the order they are inserted
\* into an empty table, and the apps each is seeded with.
default_roles ==
  <<[name |-> "admin", is_system |-> TRUE, apps |-> {}],
    [name |-> "viewer", is_system |-> TRUE, apps |-> {"jellyfin", "jellyseerr"}],
    [name |-> "downloader", is_system |-> TRUE,
     apps |-> {"qbittorrent", "transmission", "deluge", "rutorrent", "sabnzbd",
               "jackett"}]>>

seed_default_roles ==
  [roles |-> {[id |-> i, name |-> default_roles[i].name,
               is_system |-> default_roles[i].is_system] : i \in DOMAIN default_roles},
   role_app_permissions |->
     UNION {{[role_id |-> i, app_name |-> a] : a \in default_roles[i].apps} :
            i \in DOMAIN default_roles}]

\* The row of the role named so, else NoRole (Query.first() giving None).
NoRole == [id |-> 0, name |-> Null, is_system |-> FALSE]
RoleNamed(rows, name) ==
  IF \E r \in rows : r.name = name THEN CHOOSE r \in rows : r.name = name ELSE NoRole

\* migrate_existing_users: a user without roles gets the admin role when
\* is_admin is set, else the viewer role.
migrate_existing_users(us, rows) ==
  {[user_id |-> u, role_id |-> IF us[u].is_admin THEN RoleNamed(rows, "admin").id
                               ELSE RoleNamed(rows, "viewer").id] :
     u \in {x \in DOMAIN us : us[x].exists}}

\* AppCatalog._load_apps: the apps of the catalog; none is a system app.
CatalogApps ==
  {"radarr", "sonarr", "qbittorrent", "jellyseerr", "jellyfin", "jackett", "sabnzbd",
   "transmission", "deluge", "rutorrent"}
_load_apps == [a \in CatalogApps |-> [is_system |-> FALSE]]

\* settings.DEFAULT_SETTINGS: the keys update_setting accepts.
DEFAULT_SETTINGS ==
  [registration_enabled |-> "true", registration_require_approval |-> "true"]

\* After initial setup: the admin (user 1) and one more approved user exist,
\* no code and no token has been issued, every task is idle.
InitFlow ==
  /\ pkce = PkceIdle
  /\ now = 0
  /\ ticks = 0
  /\ users = [u \in AllUserIds |->
                IF u \in UserIds
                THEN [exists |-> TRUE, is_active |-> TRUE, is_approved |-> TRUE,
                      is_admin |-> (u = 1), email |-> EmailOf(u)]
                ELSE NoUser]
  /\ authCodes = {}
  /\ tokens = {}
  /\ issued = 0
  /\ procs = [p \in Procs |-> Idle]
  /\ response = NoResponse
  /\ codeReturns = <<>>
  /\ granted = <<>>
  /\ revokedPairs = {}
  /\ revokedAccess = {}

\* init_db on an empty database: the roles are seeded and the users migrated;
\* no app is installed.
InitSeeded ==
  /\ roles = seed_default_roles.roles
  /\ role_app_permissions = seed_default_roles.role_app_permissions
  /\ user_roles = migrate_existing_users(users, roles)
  /\ catalog = _load_apps
  /\ namespaces = {}
  /\ removed = {}

\* No invite has been made, no setting has a row, nobody has registered.
InitRegistration ==
  /\ invites = {}
  /\ system_settings = [key \in DOMAIN DEFAULT_SETTINGS |-> Null]
  /\ registrations = <<>>

\* Settings(): no KUBARR_JWT_* environment variable is set, the lifetimes
\* have their default values.
InitSettings ==
  settings = [jwt_access_token_expire |-> jwt_access_token_expire,
              jwt_refresh_token_expire |-> jwt_refresh_token_expire]

\* Settings() with the lifetimes configured by the environment: each is the
\* default or a shorter one.
InitConfiguredSettings ==
  settings \in [jwt_access_token_expire :
                  {jwt_access_token_expire, jwt_access_token_expire \div 4},
                jwt_refresh_token_expire :
                  {jwt_refresh_token_expire, jwt_refresh_token_expire \div 7}]

Init == InitFlow /\ InitSettings /\ InitSeeded /\ InitRegistration
InitConfigured == InitFlow /\ InitConfiguredSettings /\ InitSeeded /\ InitRegistration

(***************************************************************************)
(* OAuth2Service (kubarr/core/oauth2_service.py): what each method decides *)
(* from the rows it selects.                                               *)
(***************************************************************************)

\* None where Python holds a row or a datetime.
NoRow == [none |-> TRUE]
NoTime == -1

\* result.scalar_one_or_none() of a SELECT that matched `rows` (the columns
\* selected on are primary keys or carry a unique constraint).
scalar_one_or_none(rows) == IF rows = {} THEN NoRow ELSE CHOOSE r \in rows : TRUE

Found(row) == row # NoRow

\* get_client
get_client(client_id) ==
  IF client_id \in DOMAIN oauth2_clients THEN oauth2_clients[client_id] ELSE NoRow

\* A variant of validate_client that leaves out the comparison of the secret.
validate_client_AnySecret(client_id, client_secret) ==
  Found(get_client(client_id))

\* validate_client
validate_client(client_id, client_secret) ==
  LET client == get_client(client_id) IN
  IF ~Found(client) THEN FALSE
  ELSE IF Truthy(client_secret)
       THEN verify_client_secret(client_secret, client.client_secret_hash)
       ELSE TRUE

\* A variant of validate_authorization_code that leaves out the redirect URI
\* comparison.
validate_authorization_code_AnyRedirect(rows, t, code, client_id, redirect_uri, code_verifier) ==
  LET auth_code == scalar_one_or_none({r \in rows : r.code = code}) IN
  IF ~Found(auth_code) THEN NoRow
  ELSE IF auth_code.used THEN NoRow
  ELSE IF t > auth_code.expires_at THEN NoRow
  ELSE IF auth_code.client_id # client_id THEN NoRow
  ELSE IF Truthy(auth_code.code_challenge) /\ ~Truthy(code_verifier) THEN NoRow
  ELSE IF Truthy(auth_code.code_challenge)
          /\ ~verify_pkce(code_verifier, auth_code.code_challenge,
                          OrElse(auth_code.code_challenge_method, "S256")) THEN NoRow
  ELSE auth_code

\* validate_authorization_code, lines 133-168: the row it goes on to mark
\* used, or NoRow.  `rows` is the table as the SELECT sees it, t the clock.
validate_authorization_code(rows, t, code, client_id, redirect_uri, code_verifier) ==
  LET auth_code == scalar_one_or_none({r \in rows : r.code = code}) IN
  IF ~Found(auth_code) THEN NoRow
  ELSE IF auth_code.used THEN NoRow
  ELSE IF t > auth_code.expires_at THEN NoRow
  ELSE IF auth_code.client_id # client_id THEN NoRow
  ELSE IF auth_code.redirect_uri # redirect_uri THEN NoRow
  ELSE IF Truthy(auth_code.code_challenge) /\ ~Truthy(code_verifier) THEN NoRow
  ELSE IF Truthy(auth_code.code_challenge)
          /\ ~verify_pkce(code_verifier, auth_code.code_challenge,
                          OrElse(auth_code.code_challenge_method, "S256")) THEN NoRow
  ELSE auth_code

\* A variant of validate_access_token that does not look at the revoked flag.
validate_access_token_IgnoreRevoked(rows, t, access_token) ==
  LET token == scalar_one_or_none({r \in rows : r.access_token = access_token}) IN
  IF ~Found(token) THEN NoRow
  ELSE IF t > token.expires_at THEN NoRow
  ELSE token

\* A variant of validate_access_token that does not look at the expiry.
validate_access_token_NoExpiry(rows, t, access_token) ==
  LET token == scalar_one_or_none({r \in rows : r.access_token = access_token}) IN
  IF ~Found(token) THEN NoRow
  ELSE IF token.revoked THEN NoRow
  ELSE token

\* validate_access_token
validate_access_token(rows, t, access_token) ==
  LET token == scalar_one_or_none({r \in rows : r.access_token = access_token}) IN
  IF ~Found(token) THEN NoRow
  ELSE IF token.revoked THEN NoRow
  ELSE IF t > token.expires_at THEN NoRow
  ELSE token

\* A variant of refresh_access_token's checks that leaves out the comparison
\* of the client.
refresh_access_token_check_AnyClient(rows, t, refresh_token, client_id) ==
  LET token == scalar_one_or_none({r \in rows : r.refresh_token = refresh_token}) IN
  IF ~Found(token) THEN NoRow
  ELSE IF token.revoked THEN NoRow
  ELSE IF token.refresh_expires_at # NoTime /\ t > token.refresh_expires_at THEN NoRow
  ELSE token

\* refresh_access_token, lines 292-313: the record it goes on to revoke, or
\* NoRow.
refresh_access_token_check(rows, t, refresh_token, client_id) ==
  LET token == scalar_one_or_none({r \in rows : r.refresh_token = refresh_token}) IN
  IF ~Found(token) THEN NoRow
  ELSE IF token.client_id # client_id THEN NoRow
  ELSE IF token.revoked THEN NoRow
  ELSE IF token.refresh_expires_at # NoTime /\ t > token.refresh_expires_at THEN NoRow
  ELSE token

\* A variant of revoke_token's lookup that tries the value as an access token
\* only.
revoke_token_lookup_AccessOnly(rows, token) ==
  scalar_one_or_none({r \in rows : r.access_token = token})

\* revoke_token, lines 333-347: the record the value names, as an access
\* token first and as a refresh token otherwise.
revoke_token_lookup(rows, token) ==
  LET as_access == scalar_one_or_none({r \in rows : r.access_token = token}) IN
  IF Found(as_access) THEN as_access
  ELSE scalar_one_or_none({r \in rows : r.refresh_token = token})

\* A variant of introspect_token's user check that leaves out is_active.
introspect_user_ok_NoActive(user) == user.exists /\ user.is_approved

\* introspect_token, line 374: not (not user or not user.is_active or not
\* user.is_approved)
introspect_user_ok(user) == user.exists /\ user.is_active /\ user.is_approved

\* oauth2_tokens.id: SQLite gives a new row the largest rowid plus one.
NextTokenId(rows) ==
  IF rows = {} THEN 1
  ELSE 1 + (CHOOSE n \in {r.id : r \in rows} : \A r \in rows : r.id <= n)

\* The unique constraints of oauth2_tokens (access_token, refresh_token): the
\* INSERT of `row` raises IntegrityError when either value is stored.
TokenInsertConflicts(rows, row) ==
  \E r \in rows : r.access_token = row.access_token
                  \/ r.refresh_token = row.refresh_token

(***************************************************************************)
(* The requests.  A request that is answered sets `response` for the one   *)
(* state that follows the answering step.                                  *)
(***************************************************************************)

Response(endpoint, status, detail, subject) ==
  [endpoint |-> endpoint, status |-> status, detail |-> detail, subject |-> subject,
   grant_type |-> Null, access_token |-> Null, refresh_token |-> Null,
   active |-> FALSE, www_authenticate |-> Null]

\* The task answers and ends.
Answer(p, r) ==
  /\ procs' = [procs EXCEPT ![p] = Idle]
  /\ response' = r

\* The task goes on to its next database operation.
Continue(p, next) ==
  /\ procs' = [procs EXCEPT ![p] = next]
  /\ UNCHANGED response

\* An unhandled exception: get_db rolls the session back (lines 57-59) and
\* the client gets 500.  What earlier commits wrote stays written.
Raise(p, endpoint, exception, subject) ==
  Answer(p, Response(endpoint, 500, exception, subject))

\* History: the pairs among `rows` that the value v names by either half.
PairsNamedBy(rows, v) ==
  {<<r.access_token, r.refresh_token>> :
     r \in {x \in rows : x.access_token = v \/ x.refresh_token = v}}

\* History: the stored access tokens among `rows` that POST /auth/revoke was
\* called with.
AccessRevokedBy(endpoint, rows, v) ==
  IF endpoint = "revoke" THEN {r.access_token : r \in {x \in rows : x.access_token = v}}
  ELSE {}

\* GET /auth/authorize, lines 74-100: response_type and client_id are
\* checked; the browser is sent to the login page with the redirect_uri it
\* came with.
authorize(p, response_type, client_id, redirect_uri) ==
  /\ response = NoResponse
  /\ procs[p] = Idle
  /\ IF response_type # "code" THEN
       Answer(p, Response("authorize", 400, "Only 'code' response_type is supported",
                          redirect_uri))
     ELSE IF ~Found(get_client(client_id)) THEN
       Answer(p, Response("authorize", 400, "Invalid client_id", redirect_uri))
     ELSE
       Answer(p, Response("authorize", 302, "/auth/login", redirect_uri))
  /\ UNCHANGED <<sideVars, flowVarsButResponse>>

\* POST /auth/login, lines 116-156: the user is selected and checked, the
\* code generated and added to the session.
login_submit(p, username, password, client_id, redirect_uri, scope, code_challenge, code_challenge_method) ==
  /\ response = NoResponse
  /\ procs[p] = Idle
  /\ LET ids == {u \in DOMAIN users : users[u].exists /\ UsernameOf(u) = username}
         found == ids # {}
         id == IF found THEN CHOOSE u \in ids : TRUE ELSE 0
     IN
     IF ~found \/ ~verify_password(password, HashedPasswordOf(id)) THEN
       /\ Answer(p, Response("login", 302, "Invalid credentials", username))
       /\ UNCHANGED issued
     ELSE IF ~users[id].is_active THEN
       /\ Answer(p, Response("login", 302, "Account is inactive", username))
       /\ UNCHANGED issued
     ELSE IF ~users[id].is_approved THEN
       /\ Answer(p, Response("login", 302, "Account pending approval", username))
       /\ UNCHANGED issued
     ELSE
       /\ issued' = issued + 1
       /\ Continue(p, [pc |-> "create_authorization_code_commit",
                       auth_code |->
                         [code |-> generate_authorization_code(issued + 1),
                          client_id |-> client_id,
                          user_id |-> id,
                          redirect_uri |-> redirect_uri,
                          scope |-> scope,
                          code_challenge |-> code_challenge,
                          code_challenge_method |-> code_challenge_method,
                          expires_at |-> now + CodeExpiresIn,
                          used |-> FALSE]])
  /\ UNCHANGED <<sideVars, now, ticks, users, authCodes, tokens, codeReturns, granted,
                 revokedPairs, revokedAccess>>

\* create_authorization_code, lines 110-113, and login_submit, lines 158-163:
\* the INSERT commits (SQLite does not enforce the foreign keys) and the
\* browser is redirected with the code.
create_authorization_code_commit(p) ==
  /\ response = NoResponse
  /\ procs[p].pc = "create_authorization_code_commit"
  /\ LET row == procs[p].auth_code IN
     /\ authCodes' = authCodes \cup {row}
     /\ codeReturns' = codeReturns @@ (row.code :> 0)
     /\ granted' = granted @@ (row.code :> 0)
     /\ Answer(p, Response("login", 302, "callback", row.code))
  /\ UNCHANGED <<sideVars, now, ticks, users, tokens, issued, revokedPairs, revokedAccess>>

\* A variant of POST /auth/token that marks the code used before
\* validate_authorization_code's checks have passed.
token_endpoint_MarkFirst(p, grant_type, code, redirect_uri, client_id, client_secret, code_verifier, refresh_token) ==
  /\ response = NoResponse
  /\ procs[p] = Idle
  /\ IF ~validate_client(client_id, client_secret) THEN
       Answer(p, [Response("token", 401, "Invalid client credentials",
                           IF grant_type = "authorization_code" THEN code
                           ELSE refresh_token)
                    EXCEPT !.grant_type = grant_type, !.www_authenticate = "Bearer"])
     ELSE IF grant_type = "authorization_code" THEN
       IF ~Truthy(code) \/ ~Truthy(redirect_uri) THEN
         Answer(p, [Response("token", 400, "code and redirect_uri are required", code)
                      EXCEPT !.grant_type = grant_type])
       ELSE
         LET auth_code == validate_authorization_code(authCodes, now, code, client_id,
                                                      redirect_uri, code_verifier) IN
         IF ~Found(auth_code) THEN
           Answer(p, [Response("token", 400, "Invalid authorization code", code)
                        EXCEPT !.grant_type = grant_type])
         ELSE
           Continue(p, [pc |-> "validate_authorization_code_commit",
                        auth_code |-> [auth_code EXCEPT !.used = TRUE],
                        client_id |-> client_id,
                        redirect_uri |-> redirect_uri,
                        code_verifier |-> code_verifier,
                        checked_at |-> now])
     ELSE IF grant_type = "refresh_token" THEN
       IF ~Truthy(refresh_token) THEN
         Answer(p, [Response("token", 400, "refresh_token is required", refresh_token)
                      EXCEPT !.grant_type = grant_type])
       ELSE
         LET token_row == refresh_access_token_check(tokens, now, refresh_token,
                                                     client_id) IN
         IF ~Found(token_row) THEN
           Answer(p, [Response("token", 400, "Invalid refresh token", refresh_token)
                        EXCEPT !.grant_type = grant_type])
         ELSE
           Continue(p, [pc |-> "refresh_access_token_commit",
                        token |-> [token_row EXCEPT !.revoked = TRUE],
                        client_id |-> client_id,
                        checked_at |-> now])
     ELSE
       Answer(p, [Response("token", 400, "Unsupported grant_type", Null)
                    EXCEPT !.grant_type = grant_type])
  /\ authCodes' =
       IF /\ validate_client(client_id, client_secret)
          /\ grant_type = "authorization_code"
          /\ Truthy(code) /\ Truthy(redirect_uri)
          /\ ~Found(validate_authorization_code(authCodes, now, code, client_id,
                                                redirect_uri, code_verifier))
       THEN {[r EXCEPT !.used = (r.code = code \/ r.used)] : r \in authCodes}
       ELSE authCodes
  /\ UNCHANGED <<sideVars, now, ticks, users, tokens, issued, codeReturns,
                 granted, revokedPairs, revokedAccess>>

\* POST /auth/token, lines 134-164 and 189-206, with
\* validate_authorization_code's and refresh_access_token's SELECT and
\* checks: everything up to the first commit.
token_endpoint(p, grant_type, code, redirect_uri, client_id, client_secret, code_verifier, refresh_token) ==
  /\ response = NoResponse
  /\ procs[p] = Idle
  /\ IF ~validate_client(client_id, client_secret) THEN
       Answer(p, [Response("token", 401, "Invalid client credentials",
                           IF grant_type = "authorization_code" THEN code
                           ELSE refresh_token)
                    EXCEPT !.grant_type = grant_type, !.www_authenticate = "Bearer"])
     ELSE IF grant_type = "authorization_code" THEN
       IF ~Truthy(code) \/ ~Truthy(redirect_uri) THEN
         Answer(p, [Response("token", 400, "code and redirect_uri are required", code)
                      EXCEPT !.grant_type = grant_type])
       ELSE
         LET auth_code == validate_authorization_code(authCodes, now, code, client_id,
                                                      redirect_uri, code_verifier) IN
         IF ~Found(auth_code) THEN
           Answer(p, [Response("token", 400, "Invalid authorization code", code)
                        EXCEPT !.grant_type = grant_type])
         ELSE
           Continue(p, [pc |-> "validate_authorization_code_commit",
                        auth_code |-> [auth_code EXCEPT !.used = TRUE],
                        client_id |-> client_id,
                        redirect_uri |-> redirect_uri,
                        code_verifier |-> code_verifier,
                        checked_at |-> now])
     ELSE IF grant_type = "refresh_token" THEN
       IF ~Truthy(refresh_token) THEN
         Answer(p, [Response("token", 400, "refresh_token is required", refresh_token)
                      EXCEPT !.grant_type = grant_type])
       ELSE
         LET token_row == refresh_access_token_check(tokens, now, refresh_token,
                                                     client_id) IN
         IF ~Found(token_row) THEN
           Answer(p, [Response("token", 400, "Invalid refresh token", refresh_token)
                        EXCEPT !.grant_type = grant_type])
         ELSE
           Continue(p, [pc |-> "refresh_access_token_commit",
                        token |-> [token_row EXCEPT !.revoked = TRUE],
                        client_id |-> client_id,
                        checked_at |-> now])
     ELSE
       Answer(p, [Response("token", 400, "Unsupported grant_type", Null)
                    EXCEPT !.grant_type = grant_type])
  /\ UNCHANGED <<sideVars, now, ticks, users, authCodes, tokens, issued, codeReturns,
                 granted, revokedPairs, revokedAccess>>

\* validate_authorization_code, lines 170-174: the commit flushes
\* UPDATE ... SET used = 1 WHERE code = ?; the method returns the code.  The
\* flush raises StaleDataError when the row is gone.
validate_authorization_code_commit(p) ==
  /\ response = NoResponse
  /\ procs[p].pc = "validate_authorization_code_commit"
  /\ LET auth_code == procs[p].auth_code
         hit == {r \in authCodes : r.code = auth_code.code}
     IN
     IF hit = {} THEN
       /\ Raise(p, "token", "StaleDataError", auth_code.code)
       /\ UNCHANGED <<authCodes, codeReturns>>
     ELSE
       /\ authCodes' = (authCodes \ hit) \cup {[r EXCEPT !.used = TRUE] : r \in hit}
       /\ codeReturns' = [codeReturns EXCEPT ![auth_code.code] = @ + 1]
       /\ Continue(p, [pc |-> "create_tokens_select",
                       grant_type |-> "authorization_code",
                       subject |-> auth_code.code,
                       client_id |-> procs[p].client_id,
                       user_id |-> auth_code.user_id,
                       scope |-> auth_code.scope,
                       access_token_expires_in |-> settings.jwt_access_token_expire,
                       refresh_token_expires_in |-> settings.jwt_refresh_token_expire])
  /\ UNCHANGED <<sideVars, now, ticks, users, tokens, issued, granted, revokedPairs, revokedAccess>>

\* refresh_access_token, lines 315-322: the commit flushes
\* UPDATE ... SET revoked = 1 WHERE id = ?; create_tokens is then called with
\* its default lifetimes.
refresh_access_token_commit(p) ==
  /\ response = NoResponse
  /\ procs[p].pc = "refresh_access_token_commit"
  /\ LET token_row == procs[p].token
         hit == {r \in tokens : r.id = token_row.id}
     IN
     IF hit = {} THEN
       /\ Raise(p, "token", "StaleDataError", token_row.refresh_token)
       /\ UNCHANGED <<tokens, revokedPairs, revokedAccess>>
     ELSE
       /\ tokens' = (tokens \ hit) \cup {[r EXCEPT !.revoked = TRUE] : r \in hit}
       /\ revokedPairs' = revokedPairs
            \cup PairsNamedBy({x \in tokens : x.refresh_token = token_row.refresh_token},
                              token_row.refresh_token)
       /\ Continue(p, [pc |-> "create_tokens_select",
                       grant_type |-> "refresh_token",
                       subject |-> token_row.refresh_token,
                       client_id |-> procs[p].client_id,
                       user_id |-> token_row.user_id,
                       scope |-> token_row.scope,
                       access_token_expires_in |-> DefaultAccessExpiresIn,
                       refresh_token_expires_in |-> DefaultRefreshExpiresIn])
  /\ UNCHANGED <<sideVars, now, ticks, users, authCodes, issued, codeReturns, granted,
                 revokedAccess>>

\* create_tokens, lines 196-243: the user is selected, both tokens are
\* signed and the record is added to the session.
create_tokens_select(p) ==
  /\ response = NoResponse
  /\ procs[p].pc = "create_tokens_select"
  /\ LET a == procs[p]
         user == users[a.user_id]
     IN
     IF ~user.exists THEN
       Raise(p, "token", "ValueError: User not found", a.subject)
     ELSE
       Continue(p, [pc |-> "create_tokens_commit",
                    grant_type |-> a.grant_type,
                    subject |-> a.subject,
                    token_record |->
                      [access_token |->
                         create_access_token(a.user_id, a.client_id, a.scope, now,
                                             a.access_token_expires_in),
                       refresh_token |->
                         create_refresh_token(a.user_id, now,
                                              a.refresh_token_expires_in),
                       client_id |-> a.client_id,
                       user_id |-> a.user_id,
                       scope |-> a.scope,
                       expires_at |-> now + a.access_token_expires_in,
                       refresh_expires_at |-> now + a.refresh_token_expires_in,
                       revoked |-> FALSE]])
  /\ UNCHANGED <<sideVars, now, ticks, users, authCodes, tokens, issued, codeReturns,
                 granted, revokedPairs, revokedAccess>>

\* create_tokens, lines 243-251, and token, lines 177-187 and 208-215: the
\* INSERT commits, or raises IntegrityError on a unique constraint, and the
\* pair is returned.
create_tokens_commit(p) ==
  /\ response = NoResponse
  /\ procs[p].pc = "create_tokens_commit"
  /\ LET a == procs[p]
         row == a.token_record
     IN
     IF TokenInsertConflicts(tokens, row) THEN
       /\ Raise(p, "token", "IntegrityError", a.subject)
       /\ UNCHANGED <<tokens, granted>>
     ELSE
       /\ tokens' = tokens \cup {row @@ [id |-> NextTokenId(tokens)]}
       /\ granted' = [granted EXCEPT ![a.subject] = @ + 1] @@ (row.refresh_token :> 0)
       /\ Answer(p, [Response("token", 200, "Bearer", a.subject)
                       EXCEPT !.grant_type = a.grant_type,
                              !.access_token = row.access_token,
                              !.refresh_token = row.refresh_token])
  /\ UNCHANGED <<sideVars, now, ticks, users, authCodes, issued, codeReturns, revokedPairs, revokedAccess>>

\* revoke_token, lines 333-350, for POST /auth/revoke and POST /auth/logout:
\* the record is looked up and marked; a record that is revoked already
\* leaves the commit nothing to write.
revoke_token(p, endpoint, token) ==
  LET token_record == revoke_token_lookup(tokens, token) IN
  IF ~Found(token_record) \/ token_record.revoked THEN
    /\ Answer(p, Response(endpoint, 200,
                          IF Found(token_record) THEN "revoked already" ELSE "not found",
                          token))
    /\ revokedPairs' = revokedPairs \cup PairsNamedBy(tokens, token)
    /\ revokedAccess' = revokedAccess \cup AccessRevokedBy(endpoint, tokens, token)
  ELSE
    /\ Continue(p, [pc |-> "revoke_token_commit", endpoint |-> endpoint,
                    token |-> token, token_record |-> token_record])
    /\ UNCHANGED <<revokedPairs, revokedAccess>>

\* POST /auth/revoke, lines 305-319.
revoke(p, token, client_id, client_secret) ==
  /\ response = NoResponse
  /\ procs[p] = Idle
  /\ IF Truthy(client_id) /\ Truthy(client_secret)
        /\ ~validate_client(client_id, client_secret) THEN
       /\ Answer(p, Response("revoke", 401, "Invalid client credentials", token))
       /\ UNCHANGED <<revokedPairs, revokedAccess>>
     ELSE
       revoke_token(p, "revoke", token)
  /\ UNCHANGED <<sideVars, now, ticks, users, authCodes, tokens, issued, codeReturns,
                 granted>>

\* POST /auth/logout, lines 347-351.
logout(p, token) ==
  /\ response = NoResponse
  /\ procs[p] = Idle
  /\ IF Truthy(token) THEN
       revoke_token(p, "logout", token)
     ELSE
       /\ Answer(p, Response("logout", 200, "no token", token))
       /\ UNCHANGED <<revokedPairs, revokedAccess>>
  /\ UNCHANGED <<sideVars, now, ticks, users, authCodes, tokens, issued, codeReturns,
                 granted>>

\* revoke_token, lines 349-352: the commit flushes
\* UPDATE ... SET revoked = 1 WHERE id = ?, which raises StaleDataError when
\* the row is gone.
revoke_token_commit(p) ==
  /\ response = NoResponse
  /\ procs[p].pc = "revoke_token_commit"
  /\ LET a == procs[p]
         hit == {r \in tokens : r.id = a.token_record.id}
     IN
     IF hit = {} THEN
       /\ Raise(p, a.endpoint, "StaleDataError", a.token)
       /\ UNCHANGED <<tokens, revokedPairs, revokedAccess>>
     ELSE
       /\ tokens' = (tokens \ hit) \cup {[r EXCEPT !.revoked = TRUE] : r \in hit}
       /\ revokedPairs' = revokedPairs \cup PairsNamedBy(tokens, a.token)
       /\ revokedAccess' = revokedAccess \cup AccessRevokedBy(a.endpoint, tokens, a.token)
       /\ Answer(p, Response(a.endpoint, 200, "revoked", a.token))
  /\ UNCHANGED <<sideVars, now, ticks, users, authCodes, issued, codeReturns, granted>>

\* The answer of POST /auth/introspect.  History: revoked_before tells whether
\* a POST /auth/revoke for this access token had been answered when the
\* introspection was called.
Introspection(token, active, revoked_before) ==
  [Response("introspect", 200, IF active THEN "active" ELSE "inactive", token)
     EXCEPT !.active = active] @@ [revoked_before |-> revoked_before]

\* POST /auth/introspect, lines 241-253, with introspect_token, lines
\* 363-366: the client is checked when a secret came, the token is validated.
introspect(p, token, client_id, client_secret) ==
  /\ response = NoResponse
  /\ procs[p] = Idle
  /\ IF Truthy(client_secret) /\ ~validate_client(client_id, client_secret) THEN
       Answer(p, Response("introspect", 401, "Invalid client credentials", token))
     ELSE
       LET token_record == validate_access_token(tokens, now, token) IN
       IF ~Found(token_record) THEN
         Answer(p, Introspection(token, FALSE, token \in revokedAccess))
       ELSE
         Continue(p, [pc |-> "introspect_token_select_user", token |-> token,
                      token_record |-> token_record,
                      checked_at |-> now,
                      revoked_before |-> token \in revokedAccess])
  /\ UNCHANGED <<sideVars, now, ticks, users, authCodes, tokens, issued, codeReturns,
                 granted, revokedPairs, revokedAccess>>

\* introspect_token, lines 368-385: the user is selected and checked.
introspect_token_select_user(p) ==
  /\ response = NoResponse
  /\ procs[p].pc = "introspect_token_select_user"
  /\ LET a == procs[p]
         user == users[a.token_record.user_id]
     IN
     IF ~introspect_user_ok(user) THEN
       Answer(p, Introspection(a.token, FALSE, a.revoked_before))
     ELSE
       Answer(p, Introspection(a.token, TRUE, a.revoked_before))
  /\ UNCHANGED <<sideVars, now, ticks, users, authCodes, tokens, issued, codeReturns,
                 granted, revokedPairs, revokedAccess>>

(***************************************************************************)
(* User administration (kubarr/api/routers/users.py).  The caller is the   *)
(* user oauth2-proxy's headers name; each handler is one step.             *)
(***************************************************************************)

\* User.roles (relationship over user_roles, loaded with the user): the role
\* rows the user holds.
UserRoles(user_id) ==
  {role \in roles : [user_id |-> user_id, role_id |-> role.id] \in user_roles}

\* Role.app_permissions: the app names of the role's permission rows.
RoleApps(role_id) ==
  {perm.app_name : perm \in {x \in role_app_permissions : x.role_id = role_id}}

\* User.has_role
has_role(user_id, role_name) == \E role \in UserRoles(user_id) : role.name = role_name

\* User.has_admin_role
has_admin_role(user_id) == users[user_id].is_admin \/ has_role(user_id, "admin")

\* A variant of get_allowed_apps that looks at the is_admin flag only.
get_allowed_apps_FlagOnly(user_id) ==
  IF users[user_id].is_admin THEN [all |-> TRUE, apps |-> {}]
  ELSE [all |-> FALSE, apps |-> UNION {RoleApps(role.id) : role \in UserRoles(user_id)}]

\* User.get_allowed_apps: None (all apps) for an admin, else the set of the
\* app names of the permissions of the user's roles.
get_allowed_apps(user_id) ==
  IF has_admin_role(user_id) THEN [all |-> TRUE, apps |-> {}]
  ELSE [all |-> FALSE, apps |-> UNION {RoleApps(role.id) : role \in UserRoles(user_id)}]

\* User.can_access_app
can_access_app(user_id, app_name) ==
  LET allowed == get_allowed_apps(user_id)
  IN  IF allowed.all THEN TRUE ELSE app_name \in allowed.apps

\* get_current_active_user over get_current_user: 200, or the status of the
\* HTTPException raised.
get_current_active_user(current_user) ==
  IF ~users[current_user].exists THEN 401
  ELSE IF ~users[current_user].is_active THEN 403
  ELSE IF ~users[current_user].is_approved THEN 403
  ELSE 200

\* get_current_admin_user over get_current_active_user: 200, or the status of
\* the HTTPException raised.
get_current_admin_user(current_user) ==
  IF get_current_active_user(current_user) # 200 THEN get_current_active_user(current_user)
  ELSE IF ~has_admin_role(current_user) THEN 403
  ELSE 200

\* session.delete(user) with the delete cascades of User.tokens and
\* User.auth_codes, and the rows of the user in the association table of
\* User.roles.
DeleteUserRows(user_id) ==
  /\ users' = [users EXCEPT ![user_id] = NoUser]
  /\ authCodes' = {r \in authCodes : r.user_id # user_id}
  /\ tokens' = {r \in tokens : r.user_id # user_id}
  /\ user_roles' = {r \in user_roles : r.user_id # user_id}

AdminAnswer(endpoint, status, detail, user_id) ==
  response' = Response(endpoint, status, detail, ToString(user_id))

\* PATCH /api/users/{user_id}: email, is_active, is_admin and is_approved are
\* set when given.  The flush raises IntegrityError when the email is that of
\* another row (User.email is unique).
update_user(current_user, user_id, email, is_active, is_admin, is_approved) ==
  /\ response = NoResponse
  /\ IF get_current_admin_user(current_user) # 200 THEN
       /\ AdminAnswer("update_user", get_current_admin_user(current_user), "denied",
                      user_id)
       /\ UNCHANGED users
     ELSE IF ~users[user_id].exists THEN
       /\ AdminAnswer("update_user", 404, "User not found", user_id)
       /\ UNCHANGED users
     ELSE IF email # Null /\ \E u \in DOMAIN users \ {user_id} :
                               users[u].exists /\ users[u].email = email THEN
       /\ AdminAnswer("update_user", 500, "IntegrityError", user_id)
       /\ UNCHANGED users
     ELSE
       /\ users' = [users EXCEPT
                      ![user_id].email = IF email # Null THEN email ELSE @,
                      ![user_id].is_active =
                         IF is_active # Null THEN is_active = "True" ELSE @,
                      ![user_id].is_admin =
                         IF is_admin # Null THEN is_admin = "True" ELSE @,
                      ![user_id].is_approved =
                         IF is_approved # Null THEN is_approved = "True" ELSE @]
       /\ AdminAnswer("update_user", 200, "updated", user_id)
  /\ UNCHANGED <<sideVars, now, ticks, authCodes, tokens, issued, procs, codeReturns,
                 granted, revokedPairs, revokedAccess>>

\* POST /api/users/{user_id}/approve
approve_user(current_user, user_id) ==
  /\ response = NoResponse
  /\ IF get_current_admin_user(current_user) # 200 THEN
       /\ AdminAnswer("approve_user", get_current_admin_user(current_user), "denied",
                      user_id)
       /\ UNCHANGED users
     ELSE IF ~users[user_id].exists THEN
       /\ AdminAnswer("approve_user", 404, "User not found", user_id)
       /\ UNCHANGED users
     ELSE
       /\ users' = [users EXCEPT ![user_id].is_approved = TRUE,
                                 ![user_id].is_active = TRUE]
       /\ AdminAnswer("approve_user", 200, "approved", user_id)
  /\ UNCHANGED <<sideVars, now, ticks, authCodes, tokens, issued, procs, codeReturns,
                 granted, revokedPairs, revokedAccess>>

\* POST /api/users/{user_id}/reject
reject_user(current_user, user_id) ==
  /\ response = NoResponse
  /\ IF get_current_admin_user(current_user) # 200 THEN
       /\ AdminAnswer("reject_user", get_current_admin_user(current_user), "denied",
                      user_id)
       /\ UNCHANGED <<users, authCodes, tokens, user_roles>>
     ELSE IF ~users[user_id].exists THEN
       /\ AdminAnswer("reject_user", 404, "User not found", user_id)
       /\ UNCHANGED <<users, authCodes, tokens, user_roles>>
     ELSE
       /\ DeleteUserRows(user_id)
       /\ AdminAnswer("reject_user", 200, "User rejected and deleted", user_id)
  /\ UNCHANGED <<pkce, settings, appVars, now, ticks, issued, procs, codeReturns, granted, revokedPairs, revokedAccess>>

\* DELETE /api/users/{user_id}
delete_user(current_user, user_id) ==
  /\ response = NoResponse
  /\ IF get_current_admin_user(current_user) # 200 THEN
       /\ AdminAnswer("delete_user", get_current_admin_user(current_user), "denied",
                      user_id)
       /\ UNCHANGED <<users, authCodes, tokens, user_roles>>
     ELSE IF user_id = current_user THEN
       /\ AdminAnswer("delete_user", 400, "Cannot delete yourself", user_id)
       /\ UNCHANGED <<users, authCodes, tokens, user_roles>>
     ELSE IF ~users[user_id].exists THEN
       /\ AdminAnswer("delete_user", 404, "User not found", user_id)
       /\ UNCHANGED <<users, authCodes, tokens, user_roles>>
     ELSE
       /\ DeleteUserRows(user_id)
       /\ AdminAnswer("delete_user", 200, "User deleted", user_id)
  /\ UNCHANGED <<pkce, settings, appVars, now, ticks, issued, procs, codeReturns, granted, revokedPairs, revokedAccess>>

(***************************************************************************)
(* Roles (kubarr/api/routers/roles.py).  A handler runs in one session and *)
(* commits once: each is one step.                                         *)
(***************************************************************************)

\* What the roles and the apps endpoints answer.
Reply(endpoint, status, detail, current_user, target, body) ==
  [endpoint |-> endpoint, status |-> status, detail |-> detail, subject |-> current_user,
   target |-> target, body |-> body]

Range(seq) == {seq[i] : i \in DOMAIN seq}
HasDuplicates(seq) == \E i, j \in DOMAIN seq : i # j /\ seq[i] = seq[j]

\* The id the roles table gives the next row: rowid, one more than the
\* largest in use.
NextRoleId(rows) ==
  IF rows = {} THEN 1 ELSE 1 + CHOOSE n \in {r.id : r \in rows} : \A r \in rows : r.id <= n

\* select(Role).where(Role.id == role_id), scalar_one_or_none
RoleById(rows, role_id) ==
  IF \E r \in rows : r.id = role_id THEN CHOOSE r \in rows : r.id = role_id ELSE NoRole

\* POST /api/roles/
create_role(current_user, name, app_names) ==
  /\ response = NoResponse
  /\ IF get_current_admin_user(current_user) # 200 THEN
       /\ response' = Reply("create_role", get_current_admin_user(current_user),
                            "denied", current_user, name, {})
       /\ UNCHANGED <<roles, role_app_permissions>>
     ELSE IF RoleNamed(roles, name) # NoRole THEN
       /\ response' = Reply("create_role", 400, "Role name already exists",
                            current_user, name, {})
       /\ UNCHANGED <<roles, role_app_permissions>>
     ELSE IF HasDuplicates(app_names) THEN
       \* uq_role_app fails the commit; the flushed role is rolled back
       /\ response' = Reply("create_role", 500, "IntegrityError", current_user, name, {})
       /\ UNCHANGED <<roles, role_app_permissions>>
     ELSE
       LET new_role == [id |-> NextRoleId(roles), name |-> name, is_system |-> FALSE]
       IN  /\ roles' = roles \cup {new_role}
           /\ role_app_permissions' = role_app_permissions \cup
                {[role_id |-> new_role.id, app_name |-> a] : a \in Range(app_names)}
           /\ response' = Reply("create_role", 201, "created", current_user, name,
                                Range(app_names))
  /\ UNCHANGED <<pkce, settings, regVars, now, ticks, users, authCodes, tokens, issued, procs, codeReturns,
                 granted, revokedPairs, revokedAccess, user_roles, catalog, namespaces,
                 removed>>

\* PATCH /api/roles/{role_id}: the name is set when given (the description
\* is not modelled).
update_role(current_user, role_id, name) ==
  /\ response = NoResponse
  /\ LET role == RoleById(roles, role_id)
     IN
     IF get_current_admin_user(current_user) # 200 THEN
       /\ response' = Reply("update_role", get_current_admin_user(current_user),
                            "denied", current_user, role_id, {})
       /\ UNCHANGED roles
     ELSE IF role = NoRole THEN
       /\ response' = Reply("update_role", 404, "Role not found", current_user, role_id, {})
       /\ UNCHANGED roles
     ELSE IF role.is_system /\ name # Null /\ name # role.name THEN
       /\ response' = Reply("update_role", 400, "Cannot rename system roles",
                            current_user, role_id, {})
       /\ UNCHANGED roles
     ELSE IF name # Null /\ name # role.name /\ RoleNamed(roles, name) # NoRole THEN
       /\ response' = Reply("update_role", 400, "Role name already exists",
                            current_user, role_id, {})
       /\ UNCHANGED roles
     ELSE
       /\ roles' = IF name # Null
                   THEN (roles \ {role}) \cup {[role EXCEPT !.name = name]}
                   ELSE roles
       /\ response' = Reply("update_role", 200, "updated", current_user, role_id,
                            RoleApps(role_id))
  /\ UNCHANGED <<pkce, settings, regVars, now, ticks, users, authCodes, tokens, issued, procs, codeReturns,
                 granted, revokedPairs, revokedAccess, role_app_permissions, user_roles,
                 catalog, namespaces, removed>>

\* A variant of the is-system guard of delete_role that never fires.
delete_role_is_system_Never(role) == FALSE

\* The is-system guard of delete_role: `role.is_system`.
delete_role_is_system(role) == role.is_system

\* DELETE /api/roles/{role_id}: the role goes with its permissions (cascade
\* of Role.app_permissions) and its rows in the association table of
\* Role.users.
delete_role(current_user, role_id) ==
  /\ response = NoResponse
  /\ LET role == RoleById(roles, role_id)
     IN
     IF get_current_admin_user(current_user) # 200 THEN
       /\ response' = Reply("delete_role", get_current_admin_user(current_user),
                            "denied", current_user, role_id, {})
       /\ UNCHANGED <<roles, role_app_permissions, user_roles>>
     ELSE IF role = NoRole THEN
       /\ response' = Reply("delete_role", 404, "Role not found", current_user, role_id, {})
       /\ UNCHANGED <<roles, role_app_permissions, user_roles>>
     ELSE IF delete_role_is_system(role) THEN
       /\ response' = Reply("delete_role", 400, "Cannot delete system roles",
                            current_user, role_id, {})
       /\ UNCHANGED <<roles, role_app_permissions, user_roles>>
     ELSE
       /\ roles' = roles \ {role}
       /\ role_app_permissions' = {x \in role_app_permissions : x.role_id # role_id}
       /\ user_roles' = {x \in user_roles : x.role_id # role_id}
       /\ response' = Reply("delete_role", 200, "Role deleted", current_user, role_id, {})
  /\ UNCHANGED <<pkce, settings, regVars, now, ticks, users, authCodes, tokens, issued, procs, codeReturns,
                 granted, revokedPairs, revokedAccess, catalog, namespaces, removed>>

\* PUT /api/roles/{role_id}/apps: the old permissions are deleted and the new
\* ones added in one flush, which emits its INSERTs before its DELETEs: a new
\* permission for an app the role already has, or one given twice, fails
\* uq_role_app and the request with it.
set_role_apps(current_user, role_id, app_names) ==
  /\ response = NoResponse
  /\ IF get_current_admin_user(current_user) # 200 THEN
       /\ response' = Reply("set_role_apps", get_current_admin_user(current_user),
                            "denied", current_user, role_id, {})
       /\ UNCHANGED role_app_permissions
     ELSE IF RoleById(roles, role_id) = NoRole THEN
       /\ response' = Reply("set_role_apps", 404, "Role not found", current_user, role_id, {})
       /\ UNCHANGED role_app_permissions
     ELSE IF HasDuplicates(app_names) \/ Range(app_names) \cap RoleApps(role_id) # {} THEN
       /\ response' = Reply("set_role_apps", 500, "IntegrityError", current_user, role_id, {})
       /\ UNCHANGED role_app_permissions
     ELSE
       /\ role_app_permissions' =
            {x \in role_app_permissions : x.role_id # role_id} \cup
            {[role_id |-> role_id, app_name |-> a] : a \in Range(app_names)}
       /\ response' = Reply("set_role_apps", 200, "updated", current_user, role_id,
                            Range(app_names))
  /\ UNCHANGED <<pkce, settings, regVars, now, ticks, users, authCodes, tokens, issued, procs, codeReturns,
                 granted, revokedPairs, revokedAccess, roles, user_roles, catalog,
                 namespaces, removed>>

(***************************************************************************)
(* Apps, monitoring, logs and the app proxy (kubarr/api/routers).  The     *)
(* catalog and the cluster are read and written without an await in        *)
(* between: each handler is one step.                                      *)
(***************************************************************************)

\* str.lower(), for the names requests are made with.
lower(name) == IF name = "Jellyfin" THEN "jellyfin" ELSE name

\* AppConfig.category of the catalog's apps.
CategoryOf(app) ==
  CASE app \in {"radarr", "sonarr"} -> "media-manager"
    [] app = "jellyseerr" -> "request-manager"
    [] app = "jellyfin" -> "media-server"
    [] app = "jackett" -> "indexer"
    [] OTHER -> "download-client"

NoApp == [found |-> FALSE, name |-> Null, is_system |-> FALSE]

\* AppCatalog.get_app: the entry for the lowercased name, else None.
get_app(app_name) ==
  IF lower(app_name) \in DOMAIN catalog
  THEN [found |-> TRUE, name |-> lower(app_name),
        is_system |-> catalog[lower(app_name)].is_system]
  ELSE NoApp

\* AppCatalog.get_all_apps and get_apps_by_category, as sets of app names.
get_all_apps == DOMAIN catalog
get_apps_by_category(category) == {a \in DOMAIN catalog : CategoryOf(a) = category}

\* DeploymentManager.get_deployed_apps: the catalog's apps whose namespace
\* has deployments.
get_deployed_apps == {ns \in namespaces : ns \in get_all_apps}

\* DeploymentManager.check_namespace_exists
check_namespace_exists(namespace) == namespace \in namespaces

\* filter_apps_by_permission, over a set of app names.
filter_apps_by_permission(apps, user_id) ==
  LET allowed_apps == get_allowed_apps(user_id)
  IN  IF allowed_apps.all THEN apps ELSE {app \in apps : app \in allowed_apps.apps}

\* check_app_permission: TRUE when it returns, FALSE when it raises 403.
check_app_permission(app_name, user_id) == can_access_app(user_id, app_name)

\* A variant of the is-system guard of delete_app that never fires.
delete_app_is_system_Never(app) == FALSE

\* The is-system guard of delete_app: `app and app.is_system`.
delete_app_is_system(app) == app.found /\ app.is_system

PermissionDenied == "You don't have permission to access the app"

\* The answer of an endpoint that depends on get_current_active_user and
\* calls check_app_permission first: what the two raise, else `reply`.
Gated(endpoint, current_user, app_name, reply) ==
  IF get_current_active_user(current_user) # 200
  THEN Reply(endpoint, get_current_active_user(current_user), "denied", current_user,
             app_name, {})
  ELSE IF ~check_app_permission(app_name, current_user)
  THEN Reply(endpoint, 403, PermissionDenied, current_user, app_name, {})
  ELSE reply

\* The answer of an endpoint of a router that depends on
\* get_current_active_user and checks nothing more.
Authenticated(endpoint, current_user, app_name, reply) ==
  IF get_current_active_user(current_user) # 200
  THEN Reply(endpoint, get_current_active_user(current_user), "denied", current_user,
             app_name, {})
  ELSE reply

\* The answer of an endpoint that lists apps.
Listing(endpoint, current_user, target, apps) ==
  Authenticated(endpoint, current_user, target,
                Reply(endpoint, 200, "list", current_user, target, apps))

\* GET /api/apps/catalog
list_catalog(current_user) ==
  /\ response = NoResponse
  /\ response' = Listing("list_catalog", current_user, Null,
                         filter_apps_by_permission(get_all_apps, current_user))
  /\ UNCHANGED <<sideVars, flowVarsButResponse>>

\* GET /api/apps/installed
list_installed_apps(current_user) ==
  /\ response = NoResponse
  /\ response' =
       LET all_installed == get_deployed_apps
           allowed_apps == get_allowed_apps(current_user)
       IN  Listing("list_installed_apps", current_user, Null,
                   IF allowed_apps.all THEN all_installed
                   ELSE {app \in all_installed : app \in allowed_apps.apps})
  /\ UNCHANGED <<sideVars, flowVarsButResponse>>

\* GET /api/apps/category/{category}
list_apps_by_category(current_user, category) ==
  /\ response = NoResponse
  /\ response' = Listing("get_apps_by_category", current_user, category,
                         filter_apps_by_permission(get_apps_by_category(category),
                                                   current_user))
  /\ UNCHANGED <<sideVars, flowVarsButResponse>>

\* GET /api/apps/catalog/{app_name}
get_app_from_catalog(current_user, app_name) ==
  /\ response = NoResponse
  /\ response' =
       Gated("get_app_from_catalog", current_user, app_name,
             IF ~get_app(app_name).found
             THEN Reply("get_app_from_catalog", 404, "App not found", current_user,
                        app_name, {})
             ELSE Reply("get_app_from_catalog", 200, "app", current_user, app_name,
                        {get_app(app_name).name}))
  /\ UNCHANGED <<sideVars, flowVarsButResponse>>

\* POST /api/apps/install: deploy_app raises ValueError for a name without a
\* catalog entry or a chart (chart directories carry the catalog's names),
\* and helm fails for a release that exists.
install_app(current_user, app_name) ==
  /\ response = NoResponse
  /\ LET permitted == /\ get_current_active_user(current_user) = 200
                      /\ check_app_permission(app_name, current_user)
         deployable == /\ get_app(app_name).found
                       /\ app_name \in get_all_apps
     IN  /\ response' =
              Gated("install_app", current_user, app_name,
                    IF ~deployable
                    THEN Reply("install_app", 400, "ValueError", current_user, app_name, {})
                    ELSE IF check_namespace_exists(app_name)
                    THEN Reply("install_app", 500, "Deployment failed", current_user,
                               app_name, {})
                    ELSE Reply("install_app", 200, "installing", current_user, app_name,
                               {app_name}))
         /\ namespaces' = IF permitted /\ deployable THEN namespaces \cup {app_name}
                          ELSE namespaces
  /\ UNCHANGED <<pkce, settings, regVars, flowVarsButResponse, roles, role_app_permissions, user_roles,
                 catalog, removed>>

\* DELETE /api/apps/{app_name}: remove_app uninstalls the release and deletes
\* the namespace; it succeeds when there is none.
delete_app(current_user, app_name) ==
  /\ response = NoResponse
  /\ LET permitted == /\ get_current_active_user(current_user) = 200
                      /\ check_app_permission(app_name, current_user)
         app == get_app(app_name)
     IN  /\ response' =
              Gated("delete_app", current_user, app_name,
                    IF delete_app_is_system(app)
                    THEN Reply("delete_app", 403, "Cannot delete system app",
                               current_user, app_name, {})
                    ELSE Reply("delete_app", 200, "deleting", current_user, app_name,
                               {app_name}))
         /\ IF permitted /\ ~delete_app_is_system(app)
            THEN /\ removed' = removed \cup {app_name}
                 /\ namespaces' = namespaces \ {app_name}
            ELSE UNCHANGED <<removed, namespaces>>
  /\ UNCHANGED <<pkce, settings, regVars, flowVarsButResponse, roles, role_app_permissions, user_roles,
                 catalog>>

\* POST /api/apps/{app_name}/restart: the app's pods are deleted and come
\* back; no namespace is.
restart_app(current_user, app_name) ==
  /\ response = NoResponse
  /\ response' = Gated("restart_app", current_user, app_name,
                       Reply("restart_app", 200, "restarted", current_user, app_name,
                             {app_name}))
  /\ UNCHANGED <<sideVars, flowVarsButResponse>>

\* GET /api/apps/{app_name}/health
check_app_health(current_user, app_name) ==
  /\ response = NoResponse
  /\ response' = Gated("check_app_health", current_user, app_name,
                       Reply("check_app_health", 200, "health", current_user, app_name,
                             {app_name}))
  /\ UNCHANGED <<sideVars, flowVarsButResponse>>

\* GET /api/apps/{app_name}/exists
check_app_exists(current_user, app_name) ==
  /\ response = NoResponse
  /\ response' = Gated("check_app_exists", current_user, app_name,
                       Reply("check_app_exists", 200,
                             IF check_namespace_exists(app_name) THEN "exists"
                             ELSE "missing",
                             current_user, app_name, {app_name}))
  /\ UNCHANGED <<sideVars, flowVarsButResponse>>

\* GET /api/apps/{app_name}/status
get_app_status(current_user, app_name) ==
  /\ response = NoResponse
  /\ response' = Gated("get_app_status", current_user, app_name,
                       Reply("get_app_status", 200,
                             IF check_namespace_exists(app_name) THEN "installed"
                             ELSE "idle",
                             current_user, app_name, {app_name}))
  /\ UNCHANGED <<sideVars, flowVarsButResponse>>

\* GET /api/monitoring/health/{app_name}
get_app_health(current_user, app_name) ==
  /\ response = NoResponse
  /\ response' = Authenticated("get_app_health", current_user, app_name,
                               Reply("get_app_health", 200, "health", current_user,
                                     app_name, {app_name}))
  /\ UNCHANGED <<sideVars, flowVarsButResponse>>

\* GET /api/monitoring/endpoints/{app_name}
get_service_endpoints(current_user, app_name) ==
  /\ response = NoResponse
  /\ response' = Authenticated("get_service_endpoints", current_user, app_name,
                               Reply("get_service_endpoints", 200, "endpoints",
                                     current_user, app_name, {app_name}))
  /\ UNCHANGED <<sideVars, flowVarsButResponse>>

\* GET /api/logs/app/{app_name}
get_app_logs(current_user, app_name) ==
  /\ response = NoResponse
  /\ response' = Authenticated("get_app_logs", current_user, app_name,
                               Reply("get_app_logs", 200, "logs", current_user,
                                     app_name, {app_name}))
  /\ UNCHANGED <<sideVars, flowVarsButResponse>>

(***************************************************************************)
(* Settings, invites and registration (kubarr/api/routers/settings.py,     *)
(* users.py, login.py).  register_submit reads the invite and the          *)
(* registration_enabled setting, then the users table and the              *)
(* registration_require_approval setting, then writes: three steps, each   *)
(* the reads or writes that no other request's write can come between with *)
(* a different outcome.  INSERT and UPDATE of its one transaction are one  *)
(* step: SQLite shows other connections nothing of it before the commit.   *)
(***************************************************************************)

\* Settings.registration_enabled and Settings.registration_require_approval.
registration_enabled == TRUE
registration_require_approval == TRUE

\* `setting.value.lower() in ("true", "1", "yes")`
SettingIsTrue(value) == lower(value) \in {"true", "1", "yes"}

\* get_registration_enabled and get_registration_require_approval: the row's
\* value when there is a row, else the configured default.
get_registration_enabled ==
  IF system_settings["registration_enabled"] # Null
  THEN SettingIsTrue(system_settings["registration_enabled"])
  ELSE registration_enabled

get_registration_require_approval ==
  IF system_settings["registration_require_approval"] # Null
  THEN SettingIsTrue(system_settings["registration_require_approval"])
  ELSE registration_require_approval

\* PUT /api/settings/{key}
update_setting(current_user, key, value) ==
  /\ response = NoResponse
  /\ IF get_current_admin_user(current_user) # 200 THEN
       /\ response' = Reply("update_setting", get_current_admin_user(current_user),
                            "denied", current_user, key, {})
       /\ UNCHANGED system_settings
     ELSE IF key \notin DOMAIN DEFAULT_SETTINGS THEN
       /\ response' = Reply("update_setting", 400, "Unknown setting key", current_user,
                            key, {})
       /\ UNCHANGED system_settings
     ELSE
       /\ system_settings' = [system_settings EXCEPT ![key] = value]
       /\ response' = Reply("update_setting", 200, value, current_user, key, {})
  /\ UNCHANGED <<pkce, settings, rbacVars, flowVarsButResponse, invites, registrations>>

\* secrets.token_urlsafe(32), for the n-th invite: a code not given before.
InviteCode(n) == "invite-" \o ToString(n)

\* timedelta(days=...), in seconds.
Days(n) == n * 86400

\* POST /api/users/invites: expires_in_days of 0 or none means no expiry.
create_invite(current_user, expires_in_days) ==
  /\ response = NoResponse
  /\ IF get_current_admin_user(current_user) # 200 THEN
       /\ response' = Reply("create_invite", get_current_admin_user(current_user),
                            "denied", current_user, Null, {})
       /\ UNCHANGED invites
     ELSE
       LET new_invite ==
             [code |-> InviteCode(Cardinality(invites) + 1),
              created_by_id |-> current_user,
              used_by_id |-> 0,
              is_used |-> FALSE,
              expires_at |-> IF expires_in_days # 0 THEN now + Days(expires_in_days)
                             ELSE NoTime,
              used_at |-> NoTime]
       IN  /\ invites' = invites \cup {new_invite}
           /\ response' = Reply("create_invite", 201, "created", current_user,
                                new_invite.code, {})
  /\ UNCHANGED <<pkce, settings, rbacVars, flowVarsButResponse, system_settings, registrations>>

\* A variant of the invite lookup of register_submit without the
\* `Invite.is_used == False` filter.
register_invite_lookup_AnyUse(rows, invite_code) ==
  IF Truthy(invite_code)
  THEN scalar_one_or_none({r \in rows : r.code = invite_code})
  ELSE NoRow

\* register_submit, lines 258-262: the unused invite with the code, if a code
\* was submitted.
register_invite_lookup(rows, invite_code) ==
  IF Truthy(invite_code)
  THEN scalar_one_or_none({r \in rows : r.code = invite_code /\ ~r.is_used})
  ELSE NoRow

\* register_submit, lines 263-266: the invite was found and has not expired.
register_invite_valid(invite_obj, t) ==
  /\ Found(invite_obj)
  /\ (invite_obj.expires_at = NoTime \/ invite_obj.expires_at > t)

\* A variant of the approval rule that approves every registration.
register_is_approved_Always(invite_valid, require_approval) == TRUE

\* register_submit, line 314: `invite_valid or not require_approval`.
register_is_approved(invite_valid, require_approval) ==
  invite_valid \/ ~require_approval

\* The row the users table holds for a username.
IdOfUsername(username) == CHOOSE u \in AllUserIds : UsernameOf(u) = username

\* POST /auth/register, lines 253-288: the invite and the gate, and the two
\* password checks.
register_submit(p, username, email, password, confirm_password, invite_code) ==
  /\ response = NoResponse
  /\ procs[p] = Idle
  /\ LET invite_obj == register_invite_lookup(invites, invite_code)
         invite_valid == register_invite_valid(invite_obj, now)
     IN
     IF ~get_registration_enabled /\ ~invite_valid THEN
       Answer(p, Response("register", 302, "Registration requires a valid invite link",
                          username))
     ELSE IF password # confirm_password THEN
       Answer(p, Response("register", 302, "Passwords do not match", username))
     ELSE IF Len(password) < 8 THEN
       Answer(p, Response("register", 302, "Password must be at least 8 characters",
                          username))
     ELSE
       Continue(p, [pc |-> "register_submit_select_user", username |-> username,
                    email |-> email, submitted_code |-> invite_code,
                    invite_code |-> IF invite_valid THEN invite_obj.code ELSE Null,
                    invite_valid |-> invite_valid])
  /\ UNCHANGED <<sideVars, now, ticks, users, authCodes, tokens, issued, codeReturns,
                 granted, revokedPairs, revokedAccess>>

\* register_submit, lines 290-307: the username and the email must be new;
\* the approval setting is read.
register_submit_select_user(p) ==
  /\ response = NoResponse
  /\ procs[p].pc = "register_submit_select_user"
  /\ LET a == procs[p]
     IN
     IF \E u \in DOMAIN users : users[u].exists /\ UsernameOf(u) = a.username THEN
       Answer(p, Response("register", 302, "Username already exists", a.username))
     ELSE IF \E u \in DOMAIN users : users[u].exists /\ users[u].email = a.email THEN
       Answer(p, Response("register", 302, "Email already exists", a.username))
     ELSE
       Continue(p, [pc |-> "register_submit_commit", username |-> a.username,
                    email |-> a.email, submitted_code |-> a.submitted_code,
                    invite_code |-> a.invite_code, invite_valid |-> a.invite_valid,
                    require_approval |-> get_registration_require_approval,
                    is_approved |-> register_is_approved(a.invite_valid,
                                                        get_registration_require_approval)])
  /\ UNCHANGED <<sideVars, now, ticks, users, authCodes, tokens, issued, codeReturns,
                 granted, revokedPairs, revokedAccess>>

\* register_submit, lines 308-331: the user is inserted and, in the same
\* transaction, the invite that was found valid is marked used.  The INSERT
\* fails when the username or the email has been taken since.
register_submit_commit(p) ==
  /\ response = NoResponse
  /\ procs[p].pc = "register_submit_commit"
  /\ LET a == procs[p]
         id == IdOfUsername(a.username)
     IN
     IF \E u \in DOMAIN users :
          users[u].exists /\ (UsernameOf(u) = a.username \/ users[u].email = a.email)
     THEN
       /\ Raise(p, "register", "IntegrityError", a.username)
       /\ UNCHANGED <<users, invites, registrations>>
     ELSE
       /\ users' = [users EXCEPT ![id] =
                      [exists |-> TRUE, is_active |-> TRUE, is_approved |-> a.is_approved,
                       is_admin |-> FALSE, email |-> a.email]]
       /\ invites' = IF a.invite_valid
                     THEN {IF r.code = a.invite_code
                           THEN [r EXCEPT !.is_used = TRUE, !.used_by_id = id,
                                          !.used_at = now]
                           ELSE r : r \in invites}
                     ELSE invites
       /\ registrations' = Append(registrations,
                                  [user_id |-> id, submitted_code |-> a.submitted_code,
                                   invite_code |-> a.invite_code,
                                   is_approved |-> a.is_approved,
                                   require_approval |-> a.require_approval])
       /\ Answer(p, Response("register", 302, "success", a.username))
  /\ UNCHANGED <<pkce, settings, rbacVars, system_settings, now, ticks, authCodes, tokens, issued,
                 codeReturns, granted, revokedPairs, revokedAccess>>

\* get_current_user, lines 117-133: the identifier is the email header or else
\* the user header; the SELECT matches it with email or username, and
\* scalar_one_or_none raises MultipleResultsFound when two rows match.
get_current_user(us, user_email, user_name) ==
  LET identifier == OrElse(user_email, user_name)
      rows == {u \in DOMAIN us :
                 us[u].exists /\ (us[u].email = identifier \/ UsernameOf(u) = identifier)}
  IN  IF ~Truthy(identifier) \/ rows = {} THEN [result |-> "None", user_id |-> 0]
      ELSE IF Cardinality(rows) = 1
           THEN [result |-> "User", user_id |-> CHOOSE u \in rows : TRUE]
           ELSE [result |-> "MultipleResultsFound", user_id |-> 0]

\* GET /auth/userinfo, lines 258-285, for a request that carries the headers
\* X-Auth-Request-Email and X-Auth-Request-User.
userinfo(user_email, user_name) ==
  /\ response = NoResponse
  /\ LET current_user == get_current_user(users, user_email, user_name) IN
     response' =
       IF current_user.result = "MultipleResultsFound"
       THEN Response("userinfo", 500, "MultipleResultsFound", OrElse(user_email, user_name))
       ELSE IF current_user.result = "None"
       THEN [Response("userinfo", 401, "Not authenticated", OrElse(user_email, user_name))
               EXCEPT !.www_authenticate = "Bearer"]
       ELSE Response("userinfo", 200, UsernameOf(current_user.user_id),
                     OrElse(user_email, user_name))
  /\ UNCHANGED <<sideVars, flowVarsButResponse>>

\* POST /api/users/: an admin creates the user of this username; the user is
\* active and approved and no role is given.
create_user(current_user, user_id, email, is_admin) ==
  /\ response = NoResponse
  /\ IF get_current_admin_user(current_user) # 200 THEN
       /\ AdminAnswer("create_user", get_current_admin_user(current_user), "denied",
                      user_id)
       /\ UNCHANGED users
     ELSE IF \E u \in DOMAIN users :
               users[u].exists /\ UsernameOf(u) = UsernameOf(user_id) THEN
       /\ AdminAnswer("create_user", 400, "Username already exists", user_id)
       /\ UNCHANGED users
     ELSE IF \E u \in DOMAIN users : users[u].exists /\ users[u].email = email THEN
       /\ AdminAnswer("create_user", 400, "Email already exists", user_id)
       /\ UNCHANGED users
     ELSE
       /\ users' = [users EXCEPT ![user_id] =
                      [exists |-> TRUE, is_active |-> TRUE, is_approved |-> TRUE,
                       is_admin |-> is_admin, email |-> email]]
       /\ AdminAnswer("create_user", 201, "created", user_id)
  /\ UNCHANGED <<sideVars, now, ticks, authCodes, tokens, issued, procs, codeReturns,
                 granted, revokedPairs, revokedAccess>>

(***************************************************************************)
(* Initial setup (kubarr/core/setup.py, kubarr/api/routers/setup.py).      *)
(***************************************************************************)

\* is_setup_required: SELECT ... WHERE is_admin and scalar_one_or_none, which
\* raises MultipleResultsFound when two rows match; else `admin_user is None`.
is_setup_required(us) ==
  LET admins == {u \in DOMAIN us : us[u].exists /\ us[u].is_admin} IN
  IF admins = {} THEN "True"
  ELSE IF Cardinality(admins) = 1 THEN "False"
  ELSE "MultipleResultsFound"

\* verify_setup_required: the status it raises, or 200 when it returns.
verify_setup_required(us) ==
  CASE is_setup_required(us) = "True" -> 200
    [] is_setup_required(us) = "False" -> 403
    [] OTHER -> 500

\* The answer of a setup endpoint: verify_setup_required's, or the handler's.
SetupAnswer(endpoint, status, detail) ==
  response' = Response(endpoint,
                       IF verify_setup_required(users) = 200 THEN status
                       ELSE verify_setup_required(users),
                       IF verify_setup_required(users) = 200 THEN detail
                       ELSE IF verify_setup_required(users) = 403
                            THEN "Setup has already been completed"
                            ELSE "MultipleResultsFound",
                       Null)

\* GET /api/setup/status
setup_status ==
  /\ response = NoResponse
  /\ SetupAnswer("setup_status", 200, "setup_required")
  /\ UNCHANGED <<sideVars, flowVarsButResponse>>

\* POST /api/setup/initialize: the handler calls initialize_setup without its
\* storage_path argument (lines 94-100), which raises TypeError before
\* initialize_setup runs; nothing is written.
initialize ==
  /\ response = NoResponse
  /\ SetupAnswer("initialize", 500, "TypeError")
  /\ UNCHANGED <<sideVars, flowVarsButResponse>>

\* GET /api/setup/generate-credentials
generate_credentials ==
  /\ response = NoResponse
  /\ SetupAnswer("generate_credentials", 200, "credentials")
  /\ UNCHANGED <<sideVars, flowVarsButResponse>>

\* GET /api/setup/required
check_setup_required ==
  /\ response = NoResponse
  /\ response' = IF is_setup_required(users) = "MultipleResultsFound"
                 THEN Response("check_setup_required", 500, "MultipleResultsFound", Null)
                 ELSE Response("check_setup_required", 200, is_setup_required(users), Null)
  /\ UNCHANGED <<sideVars, flowVarsButResponse>>

\* The clock advances by d seconds.  A request is handled within seconds: the
\* clock advances by more only between requests.
Tick(d) ==
  /\ response = NoResponse
  /\ d > 1 => \A p \in Procs : procs[p] = Idle
  /\ now' = now + d
  /\ ticks' = ticks + 1
  /\ UNCHANGED <<sideVars, response, users, authCodes, tokens, issued, procs, codeReturns, granted,
                 revokedPairs, revokedAccess>>

\* The response has left the server.
ResponseSent ==
  /\ response # NoResponse
  /\ response' = NoResponse
  /\ UNCHANGED <<sideVars, now, ticks, users, authCodes, tokens, issued, procs, codeReturns,
                 granted, revokedPairs, revokedAccess>>

(***************************************************************************)
(* The specifications.                                                     *)
(***************************************************************************)

ProxyRedirect == "https://kubarr/oauth2/callback"
OtherRedirect == "https://kubarr/oauth/callback"

\* What a client sends as its credentials.
ProxyClient == [client_id |-> "oauth2-proxy", client_secret |-> "proxy-secret"]
PublicProxyClient == [client_id |-> "oauth2-proxy", client_secret |-> Null]
SeerrClient == [client_id |-> "jellyseerr-oauth", client_secret |-> "seerr-secret"]
WrongSecretClient == [client_id |-> "oauth2-proxy", client_secret |-> "seerr-secret"]
UnknownClient == [client_id |-> "unknown-client", client_secret |-> "proxy-secret"]

\* What the login form carries of PKCE; the method field defaults to S256
\* (login.py, line 97).
Pkce(code_challenge, code_challenge_method) ==
  [code_challenge |-> code_challenge, code_challenge_method |-> code_challenge_method]
NoPkce == Pkce(Null, "S256")

\* What an exchange of a code sends with it.
Exchange(client, redirect_uri, code_verifier) ==
  [client_id |-> client.client_id, client_secret |-> client.client_secret,
   redirect_uri |-> redirect_uri, code_verifier |-> code_verifier]

\* Requests run one at a time.
Sequential ==
  [procs |-> {1}, maxTicks |-> MaxTicks, maxCodes |-> MaxCodes,
   maxTokens |-> MaxTokens,
   login_users |-> {2},
   targets |-> {2},
   login_redirect_uris |-> {ProxyRedirect},
   pkce |-> {NoPkce, Pkce(hex_challenge(VerifierA), "S256")},
   login_clients |-> {ProxyClient},
   exchanges |->
     {Exchange(ProxyClient, ProxyRedirect, VerifierA),
      Exchange(ProxyClient, ProxyRedirect, VerifierB),
      Exchange(ProxyClient, ProxyRedirect, Null),
      Exchange(ProxyClient, OtherRedirect, VerifierA),
      Exchange(ProxyClient, Null, VerifierA),
      Exchange(PublicProxyClient, ProxyRedirect, VerifierA),
      Exchange(SeerrClient, ProxyRedirect, VerifierA),
      Exchange(WrongSecretClient, ProxyRedirect, VerifierA),
      Exchange(UnknownClient, ProxyRedirect, VerifierA)},
   clients |-> {ProxyClient, SeerrClient, WrongSecretClient, UnknownClient},
   steps |-> {1, CodeExpiresIn, DefaultRefreshExpiresIn + 1}]

\* Two requests run at once.
Concurrent ==
  [procs |-> Procs, maxTicks |-> MaxTicksConc, maxCodes |-> MaxCodesConc,
   maxTokens |-> MaxTokensConc,
   login_users |-> {2},
   targets |-> {2},
   login_redirect_uris |-> {ProxyRedirect},
   pkce |-> {NoPkce},
   login_clients |-> {ProxyClient},
   exchanges |-> {Exchange(ProxyClient, ProxyRedirect, Null)},
   clients |-> {ProxyClient},
   steps |-> {1}]

\* The token values a caller can hold: every value stored, and a forged one.
KnownTokens ==
  {r.access_token : r \in tokens} \cup {r.refresh_token : r \in tokens}
    \cup {ForgedToken}

KnownCodes == {r.code : r \in authCodes} \cup {generate_authorization_code(0)}

MintsInFlight ==
  Cardinality({q \in Procs : procs[q].pc \in {"validate_authorization_code_commit",
                                              "refresh_access_token_commit",
                                              "create_tokens_select",
                                              "create_tokens_commit"}})

NextOf(B) ==
  \/ \E d \in B.steps : ticks < B.maxTicks /\ Tick(d)
  \/ \E p \in B.procs, u \in B.login_users, c \in B.login_clients,
        redirect_uri \in B.login_redirect_uris, k \in B.pkce :
     \E password \in {PasswordOf(u), "wrong"} :
       /\ login_submit(p, UsernameOf(u), password, c.client_id, redirect_uri, Null,
                       k.code_challenge, k.code_challenge_method)
       /\ (procs'[p] = Idle \/ issued < B.maxCodes)
  \/ \E p \in B.procs : create_authorization_code_commit(p)
  \/ \E p \in B.procs, code \in KnownCodes, x \in B.exchanges :
       /\ token_endpoint(p, "authorization_code", code, x.redirect_uri, x.client_id,
                         x.client_secret, x.code_verifier, Null)
       /\ (procs'[p] = Idle \/ Cardinality(tokens) + MintsInFlight < B.maxTokens)
  \/ \E p \in B.procs, refresh_token \in KnownTokens \cup {Null}, c \in B.clients,
        grant_type \in {"refresh_token", "password"} :
       /\ grant_type = "password" => refresh_token = Null /\ c = ProxyClient
       /\ token_endpoint(p, grant_type, Null, Null, c.client_id, c.client_secret, Null,
                         refresh_token)
       /\ (procs'[p] = Idle \/ Cardinality(tokens) + MintsInFlight < B.maxTokens)
  \/ \E p \in B.procs : validate_authorization_code_commit(p)
  \/ \E p \in B.procs : refresh_access_token_commit(p)
  \/ \E p \in B.procs : create_tokens_select(p)
  \/ \E p \in B.procs : create_tokens_commit(p)
  \/ \E p \in B.procs, t \in KnownTokens, c \in B.clients :
       revoke(p, t, c.client_id, c.client_secret)
  \/ \E p \in B.procs, t \in KnownTokens \cup {Null} : logout(p, t)
  \/ \E p \in B.procs : revoke_token_commit(p)
  \/ \E p \in B.procs, t \in KnownTokens, c \in B.clients :
       introspect(p, t, c.client_id, c.client_secret)
  \/ \E p \in B.procs : introspect_token_select_user(p)
  \/ \E a \in UserIds, u \in B.targets, is_active \in {Null, "True", "False"},
        is_approved \in {Null, "False"} :
       /\ is_active = Null \/ is_approved = Null
       /\ update_user(a, u, Null, is_active, Null, is_approved)
  \/ \E a \in UserIds, u \in B.targets : approve_user(a, u)
  \/ \E a \in UserIds, u \in B.targets : reject_user(a, u)
  \/ \E a \in UserIds, u \in B.targets : delete_user(a, u)
  \/ ResponseSent

Next == NextOf(Concurrent)
NextSeq == NextOf(Sequential)

Spec == Init /\ [][Next]_vars
SpecSeq == Init /\ [][NextSeq]_vars

\* Requests run one at a time, with one client and no PKCE, under each
\* configuration of the lifetimes.
Configured ==
  [Sequential EXCEPT
     !.pkce = {NoPkce},
     !.exchanges = {Exchange(ProxyClient, ProxyRedirect, Null)},
     !.clients = {ProxyClient},
     !.steps = {1}]

NextConfigured == NextOf(Configured)
SpecConfigured == InitConfigured /\ [][NextConfigured]_vars

\* A redirect URI that no client has registered.
UnregisteredRedirect == "https://attacker.example/callback"

\* Requests run one at a time; the browser is sent through /auth/authorize
\* and the login form with registered and unregistered redirect URIs.
Redirecting ==
  [Sequential EXCEPT
     !.login_redirect_uris = {ProxyRedirect, UnregisteredRedirect},
     !.pkce = {NoPkce},
     !.exchanges = {Exchange(ProxyClient, ProxyRedirect, Null),
                    Exchange(ProxyClient, UnregisteredRedirect, Null)},
     !.clients = {ProxyClient},
     !.steps = {1}]

NextAuthorize ==
  \/ \E p \in Redirecting.procs, response_type \in {"code", "token"},
        c \in {ProxyClient, UnknownClient},
        redirect_uri \in Redirecting.login_redirect_uris :
       authorize(p, response_type, c.client_id, redirect_uri)
  \/ NextOf(Redirecting)

SpecAuthorize == Init /\ [][NextAuthorize]_vars

\* Requests run one at a time; the login form is posted with the client_id
\* of a registered client or of no client, whether or not /auth/authorize
\* was asked first.
Unvalidated ==
  [Redirecting EXCEPT
     !.login_redirect_uris = {ProxyRedirect},
     !.login_clients = {ProxyClient, UnknownClient},
     !.exchanges = {Exchange(ProxyClient, ProxyRedirect, Null),
                    Exchange(UnknownClient, ProxyRedirect, Null)},
     !.clients = {ProxyClient, UnknownClient}]

NextLogin ==
  \/ \E p \in Unvalidated.procs, c \in Unvalidated.login_clients,
        redirect_uri \in Unvalidated.login_redirect_uris :
       authorize(p, "code", c.client_id, redirect_uri)
  \/ NextOf(Unvalidated)

SpecLogin == Init /\ [][NextLogin]_vars

\* One call of verify_pkce(code_verifier, code_challenge, method).
PkceCall(v, c, m) ==
  /\ pkce' = [called |-> TRUE, code_verifier |-> v, code_challenge |-> c,
              method |-> m, result |-> verify_pkce(v, c, m)]
  /\ UNCHANGED <<flowVars, rbacVars, regVars, settings>>

PkceNext ==
  \E v \in Verifiers, c \in PkceChallenges, m \in PkceMethods : PkceCall(v, c, m)

SpecPkce == Init /\ [][PkceNext]_vars

(***************************************************************************)
(* Roles and apps: requests run one at a time.                             *)
(***************************************************************************)

\* The app names requests are made with, the role names and the permission
\* lists the role requests carry.
RequestedApps == {"jellyfin", "radarr"}
CasedApps == RequestedApps \cup {"Jellyfin"}
RequestedRoleNames == {"editor", "operator", "admin"}
RequestedAppLists == {<<>>, <<"jellyfin">>, <<"radarr">>, <<"radarr", "radarr">>}

\* The principals differ in what they hold: user 1 has the is_admin flag and
\* the admin role; user 2 has no flag and holds any of the seeded roles,
\* among them none and the admin role.  delete_app is handed its AppCatalog
\* by Depends(get_app_catalog): the catalog as _load_apps builds it, where no
\* AppConfig sets is_system (models.py, line 54), or one where jellyfin does.
InitRbac ==
  /\ InitFlow
  /\ InitSettings
  /\ roles = seed_default_roles.roles
  /\ role_app_permissions = seed_default_roles.role_app_permissions
  /\ \E held \in {{}, {"admin"}, {"viewer"}, {"viewer", "downloader"}} :
       user_roles = {[user_id |-> 1, role_id |-> RoleNamed(roles, "admin").id]} \cup
                    {[user_id |-> 2, role_id |-> RoleNamed(roles, n).id] : n \in held}
  /\ \E system \in {{}, {"jellyfin"}} :
       catalog = [a \in CatalogApps |-> [is_system |-> a \in system]]
  /\ namespaces = {}
  /\ removed = {}
  /\ InitRegistration

NextRbac ==
  \/ \E a \in UserIds, name \in RequestedRoleNames, app_names \in RequestedAppLists :
       /\ Cardinality(roles) < MaxRoles
       /\ create_role(a, name, app_names)
  \/ \E a \in UserIds, r \in {1, MaxRoles}, name \in RequestedRoleNames \cup {Null} :
       update_role(a, r, name)
  \/ \E a \in UserIds, r \in {1, MaxRoles} : delete_role(a, r)
  \/ \E a \in UserIds, r \in {2, MaxRoles}, app_names \in RequestedAppLists :
       set_role_apps(a, r, app_names)
  \/ \E u \in UserIds : list_catalog(u)
  \/ \E u \in UserIds : list_installed_apps(u)
  \/ \E u \in UserIds, category \in {"media-server"} : list_apps_by_category(u, category)
  \/ \E u \in UserIds, app \in CasedApps : get_app_from_catalog(u, app)
  \/ \E u \in UserIds, app \in RequestedApps : install_app(u, app)
  \/ \E u \in UserIds, app \in CasedApps : delete_app(u, app)
  \/ \E u \in UserIds, app \in RequestedApps : restart_app(u, app)
  \/ \E u \in UserIds, app \in RequestedApps : check_app_health(u, app)
  \/ \E u \in UserIds, app \in RequestedApps : check_app_exists(u, app)
  \/ \E u \in UserIds, app \in RequestedApps : get_app_status(u, app)
  \/ \E u \in UserIds, app \in RequestedApps : get_app_health(u, app)
  \/ \E u \in UserIds, app \in RequestedApps : get_service_endpoints(u, app)
  \/ \E u \in UserIds, app \in RequestedApps : get_app_logs(u, app)
  \/ ResponseSent

SpecRbac == InitRbac /\ [][NextRbac]_vars

(***************************************************************************)
(* Registration: the requests of the registration page, the login form and *)
(* the admin's user, invite and settings pages.                            *)
(***************************************************************************)

MaxInvites == 1          \* invites made
MaxRegistrations == 2    \* users created by registration
MaxTicksReg == 1         \* clock advances

\* A registration form: who registers, with which address and passwords.
Form(u, email, password, confirm_password) ==
  [username |-> UsernameOf(u), email |-> email, password |-> password,
   confirm_password |-> confirm_password]

\* The forms submitted: each registrant with their own address and password,
\* and one form each with a taken username, a taken address, passwords that
\* differ and a password that is too short.
Forms ==
  {Form(u, EmailOf(u), PasswordOf(u), PasswordOf(u)) : u \in RegistrantIds} \cup
  {Form(2, EmailOf(3), PasswordOf(3), PasswordOf(3)),
   Form(3, EmailOf(2), PasswordOf(3), PasswordOf(3)),
   Form(3, EmailOf(3), PasswordOf(3), "other-password"),
   Form(3, EmailOf(3), "short", "short")}

Registration ==
  [procs |-> Procs, maxRegistrations |-> MaxRegistrations, maxTicks |-> MaxTicksReg,
   forms |-> {Form(u, EmailOf(u), PasswordOf(u), PasswordOf(u)) : u \in RegistrantIds},
   admins |-> {1}, expiries |-> {0}, steps |-> {Days(1)},
   settings |-> {[key |-> "registration_enabled", value |-> "false"],
                 [key |-> "registration_require_approval", value |-> "false"]},
   login_users |-> {3}, targets |-> {3}]

RegistrationSeq ==
  [procs |-> {1}, maxRegistrations |-> MaxRegistrations, maxTicks |-> MaxTicksReg,
   forms |-> Forms, admins |-> {1, 2}, expiries |-> {0, 1}, steps |-> {Days(1)},
   settings |-> {[key |-> "registration_enabled", value |-> "false"],
                 [key |-> "registration_enabled", value |-> "true"],
                 [key |-> "registration_require_approval", value |-> "false"]},
   login_users |-> {3}, targets |-> {3}]

\* Registrations that have passed the gate and have not yet answered.
RegistrationsInFlight ==
  Cardinality({p \in Procs : procs[p].pc \in {"register_submit_select_user",
                                               "register_submit_commit"}})

NextRegOf(B) ==
  \/ \E d \in B.steps : ticks < B.maxTicks /\ Tick(d)
  \/ \E a \in B.admins, x \in B.settings : update_setting(a, x.key, x.value)
  \/ \E a \in B.admins, expires_in_days \in B.expiries :
       /\ Cardinality(invites) < MaxInvites
       /\ create_invite(a, expires_in_days)
  \/ \E p \in B.procs, f \in B.forms, invite_code \in {Null, InviteCode(1)} :
       /\ register_submit(p, f.username, f.email, f.password, f.confirm_password,
                          invite_code)
       /\ (procs'[p] = Idle
             \/ Len(registrations) + RegistrationsInFlight < B.maxRegistrations)
  \/ \E p \in B.procs : register_submit_select_user(p)
  \/ \E p \in B.procs : register_submit_commit(p)
  \/ \E p \in B.procs, u \in B.login_users :
       /\ login_submit(p, UsernameOf(u), PasswordOf(u), ProxyClient.client_id,
                       ProxyRedirect, Null, Null, "S256")
       /\ (procs'[p] = Idle \/ issued < MaxCodesConc)
  \/ \E p \in B.procs : create_authorization_code_commit(p)
  \/ \E a \in B.admins, u \in B.targets : approve_user(a, u)
  \/ \E a \in B.admins, u \in B.targets : reject_user(a, u)
  \/ ResponseSent

NextReg == NextRegOf(Registration)
NextRegSeq == NextRegOf(RegistrationSeq)

SpecReg == Init /\ [][NextReg]_vars
SpecRegSeq == Init /\ [][NextRegSeq]_vars

\* User management, setup and identity: an admin creates, updates, rejects
\* and deletes users, carol and the user of AliasIds register, the setup
\* endpoints are called, and requests arrive with the identity headers of
\* alice and bob.
NextUsers ==
  \/ \E a \in UserIds, u \in {3} \cup AliasIds, email \in {EmailOf(2), EmailOf(3), EmailOf(5)},
        is_admin \in BOOLEAN :
       /\ email = EmailOf(u) \/ (u = 3 /\ ~is_admin)
       /\ create_user(a, u, email, is_admin)
  \/ \E a \in {1}, u \in {1, 3}, email \in {Null, EmailOf(2)},
        is_admin \in {Null, "True", "False"} :
       /\ email = Null \/ is_admin = Null
       /\ update_user(a, u, email, Null, is_admin, Null)
  \/ \E a \in {1}, u \in {1, 3} : reject_user(a, u)
  \/ \E a \in {1}, u \in {1, 3} : delete_user(a, u)
  \/ setup_status
  \/ initialize
  \/ generate_credentials
  \/ check_setup_required
  \/ \E user_email \in {Null, EmailOf(2), EmailOf(3)}, user_name \in {Null, "alice", "bob"} :
       userinfo(user_email, user_name)
  \/ \E u \in {4} \cup AliasIds :
       /\ register_submit(1, UsernameOf(u), EmailOf(u), PasswordOf(u), PasswordOf(u), Null)
       /\ Len(registrations) + RegistrationsInFlight < MaxRegistrations
  \/ register_submit_select_user(1)
  \/ register_submit_commit(1)
  \/ ResponseSent

SpecUsers == Init /\ [][NextUsers]_vars

(***************************************************************************)
(* The claims.                                                             *)
(***************************************************************************)

\* C1: of the concurrent exchange attempts for one authorization code,
\* exactly one has validate_authorization_code return the code: no code is
\* returned twice.
C1_OneAttemptReturnsTheCode ==
  \A c \in DOMAIN codeReturns : codeReturns[c] <= 1

\* C2: there is exactly one successful exchange per authorization code: a
\* stored code that is marked used, and whose exchange is over, was answered
\* with tokens exactly once; a code not marked used was answered with none.
C2_OneSuccessfulExchangePerCode ==
  \A r \in authCodes :
    LET in_flight ==
          \E q \in Procs :
            \/ /\ procs[q].pc = "validate_authorization_code_commit"
               /\ procs[q].auth_code.code = r.code
            \/ /\ procs[q].pc \in {"create_tokens_select", "create_tokens_commit"}
               /\ procs[q].grant_type = "authorization_code"
               /\ procs[q].subject = r.code
    IN  ~in_flight => granted[r.code] = (IF r.used THEN 1 ELSE 0)

\* C3: validate_authorization_code returns a code exactly when the code is
\* stored, unused, unexpired, issued to the given client_id and with exactly
\* the given redirect_uri, and, when a challenge was recorded, a verifier is
\* given that verify_pkce accepts under the recorded method; the code it
\* returns is the one asked for, and a code it returned is marked used.
C3_ValidateAuthorizationCodeChecks ==
  /\ \A code \in KnownCodes, client_id \in DOMAIN oauth2_clients,
        redirect_uri \in {ProxyRedirect, OtherRedirect},
        code_verifier \in {Null, "", VerifierA, VerifierB} :
       LET returned == validate_authorization_code(authCodes, now, code, client_id,
                                                   redirect_uri, code_verifier)
       IN
       /\ Found(returned) <=>
            \E r \in authCodes :
              /\ r.code = code
              /\ ~r.used
              /\ now <= r.expires_at
              /\ r.client_id = client_id
              /\ r.redirect_uri = redirect_uri
              /\ Truthy(r.code_challenge) =>
                   /\ Truthy(code_verifier)
                   /\ verify_pkce(code_verifier, r.code_challenge,
                                  r.code_challenge_method)
       /\ Found(returned) => returned \in authCodes /\ returned.code = code
  /\ \A p \in Procs :
       procs[p].pc = "validate_authorization_code_commit" =>
         LET a == procs[p] IN
         /\ a.checked_at <= a.auth_code.expires_at
         /\ a.auth_code.client_id = a.client_id
         /\ a.auth_code.redirect_uri = a.redirect_uri
         /\ Truthy(a.auth_code.code_challenge) =>
              /\ Truthy(a.code_verifier)
              /\ verify_pkce(a.code_verifier, a.auth_code.code_challenge,
                             a.auth_code.code_challenge_method)
  /\ \A r \in authCodes : codeReturns[r.code] > 0 => r.used

\* C3's case: a code with a recorded challenge has passed every check and is
\* about to be marked used, and a code issued to one redirect URI is stored.
C3_Witness ==
  \E p \in Procs :
    /\ procs[p].pc = "validate_authorization_code_commit"
    /\ Truthy(procs[p].auth_code.code_challenge)
    /\ \E r \in authCodes : r.used

\* C4: the PKCE round trip.  With S256 and the RFC 7636 challenge of a
\* verifier V, verify_pkce is true for V and false for every other verifier;
\* with plain it is the equality of verifier and challenge; with any other
\* method it is false.
C4_PkceRoundTrip ==
  pkce.called =>
    /\ pkce.method = "S256" =>
         \A V \in Verifiers :
           pkce.code_challenge = sha256_challenge(V) =>
             pkce.result = (pkce.code_verifier = V)
    /\ pkce.method = "plain" =>
         pkce.result = (pkce.code_verifier = pkce.code_challenge)
    /\ pkce.method \notin {"S256", "plain"} => pkce.result = FALSE

\* C5: token rotation.  Once a refresh of the pair (A, R) has been answered
\* with a new pair, A does not validate and R cannot be refreshed, in every
\* later state; and when the new pair is returned, its access token validates
\* and its refresh token passes the checks of a refresh.
C5_TokenRotation ==
  /\ \A pair \in revokedPairs :
       granted[pair[2]] > 0 =>
         /\ ~Found(validate_access_token(tokens, now, pair[1]))
         /\ \A c \in DOMAIN oauth2_clients :
              ~Found(refresh_access_token_check(tokens, now, pair[2], c))
  /\ (/\ response.endpoint = "token"
      /\ response.status = 200
      /\ response.grant_type = "refresh_token") =>
       /\ Found(validate_access_token(tokens, now, response.access_token))
       /\ \E c \in DOMAIN oauth2_clients :
            Found(refresh_access_token_check(tokens, now, response.refresh_token, c))

\* C6: when minting fails during a refresh, the old pair is not left revoked:
\* a refresh that is answered with an error leaves the record of the presented
\* refresh token unrevoked.
C6_FailedRefreshLeavesOldPair ==
  (/\ response.endpoint = "token"
   /\ response.status = 500) =>
    \A r \in tokens : r.refresh_token = response.subject => ~r.revoked

\* C7: revocation is permanent and covers both halves.  The record of a pair
\* that a revocation covered (revoke or logout with either value, or a
\* refresh) is marked revoked in every later state, its access token does not
\* validate and its refresh token passes no refresh.
C7_RevocationIsPermanent ==
  \A pair \in revokedPairs :
    /\ \A r \in tokens :
         r.access_token = pair[1] \/ r.refresh_token = pair[2] => r.revoked
    /\ ~Found(validate_access_token(tokens, now, pair[1]))
    /\ \A c \in DOMAIN oauth2_clients :
         ~Found(refresh_access_token_check(tokens, now, pair[2], c))

\* C8: an introspection that is called after POST /auth/revoke was answered
\* for a stored access token reports that token inactive.
C8_RevokedTokenIntrospectsInactive ==
  (/\ response.endpoint = "introspect"
   /\ response.status = 200
   /\ response.revoked_before) => ~response.active

\* C8's case: the token was revoked through POST /auth/revoke while it was
\* unexpired and its user in good standing, and is introspected afterwards.
C8_Witness ==
  /\ response.endpoint = "introspect"
  /\ response.status = 200
  /\ response.revoked_before
  /\ \E r \in tokens :
       /\ r.access_token = response.subject
       /\ now <= r.expires_at
       /\ users[r.user_id].exists /\ users[r.user_id].is_active
       /\ users[r.user_id].is_approved

\* C9: introspection reports a token active only if its user exists, is
\* active and is approved when the answer is given.
C9_IntrospectionChecksUser ==
  (/\ response.endpoint = "introspect"
   /\ response.status = 200
   /\ response.active) =>
    \E r \in tokens :
      /\ r.access_token = response.subject
      /\ users[r.user_id].exists
      /\ users[r.user_id].is_active
      /\ users[r.user_id].is_approved

\* C9's case: an unexpired, unrevoked token of a user who was deactivated is
\* introspected and reported inactive.
C9_Witness ==
  /\ response.endpoint = "introspect"
  /\ response.status = 200
  /\ ~response.active
  /\ \E r \in tokens :
       /\ r.access_token = response.subject
       /\ ~r.revoked
       /\ now <= r.expires_at
       /\ users[r.user_id].exists
       /\ ~users[r.user_id].is_active
       /\ users[r.user_id].is_approved

\* C10: expiry is enforced at validation.  Strictly after its expires_at a
\* code is rejected by validate_authorization_code and an access token by
\* validate_access_token, and strictly after its refresh_expires_at a refresh
\* token is rejected by refresh_access_token, whatever else is presented; a
\* check that passed was made no later than the expiry.
C10_ExpiryEnforced ==
  /\ \A r \in authCodes :
       now > r.expires_at =>
         \A code_verifier \in {Null, VerifierA, VerifierB} :
           ~Found(validate_authorization_code(authCodes, now, r.code, r.client_id,
                                              r.redirect_uri, code_verifier))
  /\ \A r \in tokens :
       /\ now > r.expires_at => ~Found(validate_access_token(tokens, now, r.access_token))
       /\ now > r.refresh_expires_at =>
            ~Found(refresh_access_token_check(tokens, now, r.refresh_token, r.client_id))
  /\ \A p \in Procs :
       /\ procs[p].pc = "validate_authorization_code_commit" =>
            procs[p].checked_at <= procs[p].auth_code.expires_at
       /\ procs[p].pc = "introspect_token_select_user" =>
            procs[p].checked_at <= procs[p].token_record.expires_at
       /\ procs[p].pc = "refresh_access_token_commit" =>
            procs[p].checked_at <= procs[p].token.refresh_expires_at

\* C10's case: an unused code and an unrevoked pair are stored and the clock
\* is past the code's expiry and both expiries of the pair.
C10_Witness ==
  /\ \E r \in authCodes : ~r.used /\ now > r.expires_at
  /\ \E r \in tokens :
       ~r.revoked /\ now > r.expires_at /\ now > r.refresh_expires_at

\* C11: RBAC completeness.  For every principal P and app name A,
\* can_access_app(P, A) is true if and only if P has the is_admin flag, or P
\* holds a role named "admin", or A is among the app names of the permissions
\* of the roles P holds; a principal with no roles and no flag can access no
\* app; and GET /api/apps/catalog/{app_name} denies permission exactly when
\* none of the three holds.
C11_RbacCompleteness ==
  LET Holds(P, r) == r \in roles /\ [user_id |-> P, role_id |-> r.id] \in user_roles
      Entitled(P, A) ==
        \/ users[P].is_admin
        \/ \E r \in roles : Holds(P, r) /\ r.name = "admin"
        \/ \E r \in roles, x \in role_app_permissions :
             Holds(P, r) /\ x.role_id = r.id /\ x.app_name = A
      Names == CatalogApps \cup CasedApps \cup {"unknown"}
  IN  /\ \A P \in UserIds, A \in Names : can_access_app(P, A) <=> Entitled(P, A)
      /\ \A P \in UserIds :
           (~users[P].is_admin /\ ~\E r \in roles : Holds(P, r))
             => \A A \in Names : ~can_access_app(P, A)
      /\ (response.endpoint = "get_app_from_catalog" /\ response.status # 401)
           => (response.detail = PermissionDenied
                 <=> ~Entitled(response.subject, response.target))

\* A principal without the flag and without the admin role has read the
\* catalog entry of an app that a role of theirs was given after seeding.
C11_Witness ==
  /\ response.endpoint = "get_app_from_catalog"
  /\ response.status = 200
  /\ response.target = "radarr"
  /\ ~users[response.subject].is_admin
  /\ ~has_role(response.subject, "admin")

\* C12: invite single-use.  Once a registration has succeeded by a valid
\* invite, the invite is used and no later registration that submits the same
\* code succeeds, whatever registration_enabled is set to.
C12_InviteSingleUse ==
  /\ \A i, j \in DOMAIN registrations :
       (i < j /\ registrations[i].invite_code # Null)
         => registrations[j].submitted_code # registrations[i].invite_code
  /\ \A i \in DOMAIN registrations :
       registrations[i].invite_code # Null
         => \E r \in invites : r.code = registrations[i].invite_code /\ r.is_used

\* C13: an invite is consumed at most once under concurrency.  Of the
\* registrations that interleave, at most one creates a user by means of a
\* given invite, and the invite is used once a user has been created by it.
C13_InviteConsumedOnce ==
  /\ \A i, j \in DOMAIN registrations :
       (i # j /\ registrations[i].invite_code # Null)
         => registrations[i].invite_code # registrations[j].invite_code
  /\ \A i \in DOMAIN registrations :
       registrations[i].invite_code # Null
         => \E r \in invites : /\ r.code = registrations[i].invite_code
                                /\ r.is_used
                                /\ r.used_by_id = registrations[i].user_id

\* C14: the registration gate.  A register_submit with registration disabled
\* and no valid (unused, unexpired) invite is rejected, creates no user and
\* marks no invite.  With a valid invite, or with registration enabled, a form
\* with matching passwords of eight characters or more passes the gate; with
\* an unused username and email it goes on to its commit, which creates the
\* user and marks the invite used if the registration had a valid one, and
\* no invite otherwise.
C14_RegistrationGate ==
  [][/\ \A p \in Procs, f \in Forms, code \in {Null, InviteCode(1)} :
          register_submit(p, f.username, f.email, f.password, f.confirm_password, code)
            => LET valid == \E r \in invites :
                              /\ r.code = code
                              /\ ~r.is_used
                              /\ (r.expires_at = NoTime \/ r.expires_at > now)
                   enabled == IF system_settings["registration_enabled"] = Null
                              THEN registration_enabled
                              ELSE system_settings["registration_enabled"]
                                     \in {"true", "1", "yes"}
                   acceptable == f.password = f.confirm_password /\ Len(f.password) >= 8
               IN  /\ (~enabled /\ ~valid)
                        => /\ procs'[p] = Idle
                           /\ response'.detail = "Registration requires a valid invite link"
                           /\ users' = users
                           /\ invites' = invites
                   /\ ((enabled \/ valid) /\ acceptable)
                        => /\ procs'[p].pc = "register_submit_select_user"
                           /\ procs'[p].invite_valid = valid
     /\ \A p \in Procs :
          register_submit_select_user(p)
            => ((\A u \in AllUserIds :
                   users[u].exists => /\ UsernameOf(u) # procs[p].username
                                      /\ users[u].email # procs[p].email)
                  => procs'[p].pc = "register_submit_commit")
     /\ \A p \in Procs :
          register_submit_commit(p)
            => LET a == procs[p]
                   id == CHOOSE u \in AllUserIds : UsernameOf(u) = a.username
               IN  /\ users'[id].exists
                   /\ response'.detail = "success"
                   /\ a.invite_valid
                        => \E r \in invites' :
                             r.code = a.invite_code /\ r.is_used /\ r.used_by_id = id
                   /\ ~a.invite_valid => invites' = invites
    ]_vars

\* With registration disabled a registration by a valid invite has created a
\* user and marked the invite used.
C14_Witness ==
  /\ response.endpoint = "register"
  /\ response.detail = "success"
  /\ system_settings["registration_enabled"] = "false"
  /\ \E r \in invites : r.is_used /\ users[r.used_by_id].exists

\* C15: approval gating.  A user that a registration creates is approved when
\* the registration used a valid invite, whatever require_approval is, and is
\* not approved when it used none and found require_approval on.  A user who
\* is not approved becomes approved only by an admin's approve_user or
\* update_user, and login_submit makes an authorization code only for a user
\* who is approved: no code is stored that login_submit did not make.
C15_ApprovalGating ==
  [][/\ \A u \in AllUserIds :
          (~users[u].exists /\ users'[u].exists)
            => /\ Len(registrations') = Len(registrations) + 1
               /\ LET r == registrations'[Len(registrations')]
                  IN  /\ r.user_id = u
                      /\ r.invite_code # Null => users'[u].is_approved
                      /\ (r.invite_code = Null /\ r.require_approval)
                           => ~users'[u].is_approved
     /\ \A u \in AllUserIds :
          (users[u].exists /\ ~users[u].is_approved /\ users'[u].is_approved)
            => /\ response'.endpoint \in {"approve_user", "update_user"}
               /\ response'.status = 200
     /\ \A p \in Procs :
          (procs[p] = Idle /\ procs'[p].pc = "create_authorization_code_commit")
            => /\ users[procs'[p].auth_code.user_id].exists
               /\ users[procs'[p].auth_code.user_id].is_approved
     /\ \A row \in authCodes' \ authCodes :
          \E p \in Procs : /\ procs[p].pc = "create_authorization_code_commit"
                            /\ procs[p].auth_code = row
    ]_vars

\* A user who registered without an invite while require_approval was on is
\* not approved, and login has just refused them.
C15_Witness ==
  /\ response.endpoint = "login"
  /\ response.detail = "Account pending approval"
  /\ \E i \in DOMAIN registrations :
       /\ registrations[i].invite_code = Null
       /\ registrations[i].require_approval
       /\ UsernameOf(registrations[i].user_id) = response.subject
       /\ ~users[registrations[i].user_id].is_approved

\* C16: system roles are protected.  Whatever roles are created, updated,
\* deleted or given apps, the seeded roles admin, viewer and downloader exist
\* with is_system set and their names; a delete_role of a system role, and an
\* update_role that would rename one, are answered with an error and change
\* no role and no permission.
C16_SystemRolesProtected ==
  /\ [](\A i \in DOMAIN default_roles :
          \E r \in roles : r.id = i /\ r.name = default_roles[i].name /\ r.is_system)
  /\ [][/\ \A a \in UserIds, i \in DOMAIN default_roles :
             delete_role(a, i)
               => /\ response'.status >= 400
                  /\ roles' = roles
                  /\ role_app_permissions' = role_app_permissions
                  /\ user_roles' = user_roles
        /\ \A a \in UserIds, i \in DOMAIN default_roles, name \in RequestedRoleNames :
             (update_role(a, i, name) /\ name # default_roles[i].name)
               => /\ response'.status >= 400
                  /\ roles' = roles
                  /\ role_app_permissions' = role_app_permissions
       ]_vars

\* An admin's delete_role of a system role has been refused while a role
\* made by an admin exists beside the seeded ones.
C16_Witness ==
  /\ response.endpoint = "delete_role"
  /\ response.status = 400
  /\ response.detail = "Cannot delete system roles"
  /\ \E r \in roles : ~r.is_system

\* The client_id is unknown, or a secret is supplied that is not the client's.
C17_BadClient(client_id, client_secret) ==
  \/ client_id \notin DOMAIN oauth2_clients
  \/ /\ client_secret \notin {Null, ""}
     /\ hash_client_secret(client_secret) # oauth2_clients[client_id].client_secret_hash

\* The request of task p is answered 401 with the challenge and writes nothing.
C17_Refused(p) ==
  /\ response'.endpoint = "token"
  /\ response'.status = 401
  /\ response'.www_authenticate = "Bearer"
  /\ procs'[p] = Idle
  /\ authCodes' = authCodes
  /\ tokens' = tokens
  /\ codeReturns' = codeReturns
  /\ granted' = granted
  /\ issued' = issued
  /\ revokedPairs' = revokedPairs
  /\ revokedAccess' = revokedAccess

\* C17: POST /auth/token validates the client before any grant logic.  When
\* the client_id is unknown, or a client_secret is supplied that is not the
\* client's, the answer is 401 with WWW-Authenticate: Bearer whatever code or
\* refresh token came with the request, the request ends there, and no
\* authorization code is consumed and no token is revoked or minted.
C17_ClientValidatedFirst ==
  [][/\ \A p \in Procs, code \in KnownCodes, x \in Sequential.exchanges :
          (/\ C17_BadClient(x.client_id, x.client_secret)
           /\ token_endpoint(p, "authorization_code", code, x.redirect_uri, x.client_id,
                             x.client_secret, x.code_verifier, Null))
            => C17_Refused(p)
     /\ \A p \in Procs, refresh_token \in KnownTokens \cup {Null},
           c \in Sequential.clients, grant_type \in {"refresh_token", "password"} :
          (/\ C17_BadClient(c.client_id, c.client_secret)
           /\ token_endpoint(p, grant_type, Null, Null, c.client_id, c.client_secret,
                             Null, refresh_token))
            => C17_Refused(p)
    ]_vars

\* A request has been refused with 401 although the code it carried was a
\* stored, unused, unexpired code of the oauth2-proxy client, which stays
\* unused.
C17_Witness ==
  /\ response.endpoint = "token"
  /\ response.status = 401
  /\ response.grant_type = "authorization_code"
  /\ \E r \in authCodes :
       /\ r.code = response.subject
       /\ ~r.used
       /\ r.expires_at > now
       /\ r.client_id = "oauth2-proxy"

\* C18: redirect URIs are restricted to the client's registered set by exact
\* match.  Over any sequence of /auth/authorize and login requests, every
\* authorization code being issued or stored, and every redirect that carries
\* a code, is for a redirect_uri equal to one of the redirect URIs registered
\* for the code's client.
C18_RedirectRestricted ==
  LET permitted(row) ==
        /\ row.client_id \in DOMAIN oauth2_clients
        /\ row.redirect_uri \in oauth2_clients[row.client_id].redirect_uris
  IN
  /\ \A r \in authCodes : permitted(r)
  /\ \A p \in Procs :
       procs[p].pc = "create_authorization_code_commit" => permitted(procs[p].auth_code)

\* C19: RBAC gating is applied uniformly.  An endpoint that lists catalog or
\* installed apps returns to a principal only apps for which can_access_app
\* holds, and an endpoint addressed to an app by name (apps catalog, install,
\* delete, restart, health, exists, status; monitoring health and endpoints;
\* app logs) answers an authenticated principal for whom
\* can_access_app(app_name) is false with the permission-denied failure.
C19_UniformGating ==
  LET lists == {"list_catalog", "list_installed_apps", "list_apps_by_category"}
      by_name == {"get_app_from_catalog", "install_app", "delete_app", "restart_app",
                  "check_app_health", "check_app_exists", "get_app_status",
                  "get_app_health", "get_service_endpoints", "get_app_logs"}
  IN  /\ (response.endpoint \in lists /\ response.status = 200)
           => \A app \in response.body : can_access_app(response.subject, app)
      /\ (/\ response.endpoint \in by_name
          /\ get_current_active_user(response.subject) = 200
          /\ ~can_access_app(response.subject, response.target))
           => /\ response.status = 403
              /\ response.detail = PermissionDenied

\* The catalog entry of the app of this name has is_system set.
C20_is_system_app(app_name) ==
  lower(app_name) \in DOMAIN catalog /\ catalog[lower(app_name)].is_system

\* C20: system apps are never removed by delete_app.  For every principal, an
\* admin for whom the RBAC check passes included, a delete_app of an app whose
\* catalog entry has is_system set is rejected and remove_app is not called
\* for it: nothing is removed and no namespace goes.  The RBAC check comes
\* before the is-system guard: a principal without access to the app is told
\* so, and not that the app is a system app.
C20_SystemAppsKept ==
  /\ [](\A app_name \in removed : ~C20_is_system_app(app_name))
  /\ [](response.endpoint = "delete_app"
          => /\ C20_is_system_app(response.target) => response.status \in {401, 403}
             /\ (/\ get_current_active_user(response.subject) = 200
                 /\ ~can_access_app(response.subject, response.target))
                  => response.detail = PermissionDenied)
  /\ [][\A u \in UserIds, app_name \in CasedApps :
          (delete_app(u, app_name) /\ C20_is_system_app(app_name))
            => /\ removed' = removed
               /\ namespaces' = namespaces
               /\ response'.status \in {401, 403}
       ]_vars

\* An admin, for whom the RBAC check passes, has been refused the deletion of
\* an installed system app, which stays installed.
C20_Witness ==
  /\ response.endpoint = "delete_app"
  /\ response.status = 403
  /\ response.detail = "Cannot delete system app"
  /\ has_admin_role(response.subject)
  /\ catalog[lower(response.target)].is_system
  /\ lower(response.target) \in namespaces
  /\ removed # {}

\* The stored records that carry the value as their access or refresh token.
C21_Named(token) == {r \in tokens : r.access_token = token \/ r.refresh_token = token}

\* POST /auth/revoke is not refused for the client's credentials.
C21_ClientPasses(c) ==
  \/ c.client_secret \in {Null, ""}
  \/ /\ c.client_id \in DOMAIN oauth2_clients
     /\ hash_client_secret(c.client_secret) = oauth2_clients[c.client_id].client_secret_hash

\* C21: revoke_token is idempotent and permissive.  A value that names a
\* stored, unrevoked record as its access or its refresh token has that
\* record, and no other, marked revoked; applied to a value whose record is
\* revoked already (a second application) it leaves every record as it is;
\* applied to a value that names no stored record it changes no record and
\* raises nothing; in the last two cases POST /auth/revoke answers 200.
C21_RevokeIdempotent ==
  [][/\ \A p \in Procs, t \in KnownTokens, c \in Sequential.clients :
          (revoke(p, t, c.client_id, c.client_secret) /\ C21_ClientPasses(c))
            => /\ tokens' = tokens
               /\ IF \E r \in C21_Named(t) : ~r.revoked
                  THEN /\ procs'[p].pc = "revoke_token_commit"
                       /\ procs'[p].token_record \in C21_Named(t)
                       /\ response' = NoResponse
                  ELSE /\ procs'[p] = Idle
                       /\ response'.endpoint = "revoke"
                       /\ response'.status = 200
     /\ \A p \in Procs :
          (revoke_token_commit(p) /\ response'.status = 200)
            => LET t == procs[p].token IN
               /\ C21_Named(t) # {}
               /\ tokens' = (tokens \ C21_Named(t))
                              \cup {[r EXCEPT !.revoked = TRUE] : r \in C21_Named(t)}
               /\ \A r \in tokens' :
                    (r.access_token = t \/ r.refresh_token = t) => r.revoked
    ]_vars

\* POST /auth/revoke has been answered 200 for a refresh token value whose
\* record was revoked before the request, by an earlier revocation of the
\* same value.
C21_Witness ==
  /\ response.endpoint = "revoke"
  /\ response.status = 200
  /\ response.detail = "revoked already"
  /\ procs = [q \in Procs |-> Idle]
  /\ \E r \in tokens :
       /\ r.refresh_token = response.subject
       /\ r.revoked
       /\ <<r.access_token, r.refresh_token>> \in revokedPairs

\* The stored records whose refresh token is the value, that belong to the
\* client, are unrevoked and whose refresh token is unexpired.
C22_Redeemable(refresh_token, client_id) ==
  {r \in tokens : /\ r.refresh_token = refresh_token
                  /\ r.client_id = client_id
                  /\ ~r.revoked
                  /\ now <= r.refresh_expires_at}

\* C22: refresh_access_token returns a new pair only if the refresh token
\* presented is stored, its record belongs to the requesting client, the
\* record is unrevoked and the refresh token is unexpired.  A refresh token
\* presented by another client, and an access token presented as a refresh
\* token, yield null: the grant is answered 400 and no record is touched.
C22_RefreshChecks ==
  /\ [][\A p \in Procs, rt \in KnownTokens, c \in Sequential.clients :
          (/\ ~C17_BadClient(c.client_id, c.client_secret)
           /\ token_endpoint(p, "refresh_token", Null, Null, c.client_id,
                             c.client_secret, Null, rt))
            => IF C22_Redeemable(rt, c.client_id) # {}
               THEN /\ procs'[p].pc = "refresh_access_token_commit"
                    /\ procs'[p].token.id \in {r.id : r \in C22_Redeemable(rt, c.client_id)}
               ELSE /\ procs'[p] = Idle
                    /\ response'.status = 400
                    /\ response'.detail = "Invalid refresh token"
                    /\ tokens' = tokens
       ]_vars
  /\ [][\A p \in Procs :
          (procs'[p].pc = "create_tokens_select" /\ procs'[p].grant_type = "refresh_token"
             /\ procs[p].pc # "create_tokens_select")
            => procs[p].pc = "refresh_access_token_commit"
       ]_vars

\* The refresh token of a stored, unrevoked, unexpired pair of oauth2-proxy
\* has been presented by jellyseerr-oauth with its own secret, and refused.
C22_Witness ==
  /\ response.endpoint = "token"
  /\ response.grant_type = "refresh_token"
  /\ response.status = 400
  /\ \E r \in tokens :
       /\ r.refresh_token = response.subject
       /\ r.client_id = "oauth2-proxy"
       /\ ~r.revoked
       /\ now <= r.refresh_expires_at

\* C23: a POST /auth/token request that is rejected with 400 or 401 leaves
\* the store unchanged.  The request is answered in the step it starts in, and
\* that step writes no authorization code, no token record and no user: a
\* failed code exchange does not mark the code used and a failed refresh
\* revokes no record, so the holder can still complete the flow.
C23_RejectionWritesNothing ==
  [][(/\ response'.endpoint = "token"
      /\ response' # response
      /\ response'.status \in {400, 401})
       => /\ authCodes' = authCodes
          /\ tokens' = tokens
          /\ users' = users
          /\ procs' = procs
          /\ \E p \in Procs : procs[p] = Idle
    ]_vars

\* An exchange of a stored, unused, unexpired code has been rejected with 400
\* and the code is still unused, while a refresh token of a stored, unrevoked
\* pair is there to be refreshed.
C23_Witness ==
  /\ response.endpoint = "token"
  /\ response.status = 400
  /\ response.grant_type = "authorization_code"
  /\ \E r \in authCodes :
       /\ r.code = response.subject
       /\ ~r.used
       /\ now <= r.expires_at
  /\ \E r \in tokens : ~r.revoked

\* C24: create_tokens mints values that differ from every stored value.  The
\* access and refresh token about to be inserted are the access or refresh
\* token of no stored record, so the unique constraints of oauth2_tokens are
\* never violated and no mint for an existing user ends in IntegrityError,
\* pairs minted for one user within one clock second included.
C24_MintedValuesAreFresh ==
  /\ \A p \in Procs :
       procs[p].pc = "create_tokens_commit"
         => \A r \in tokens :
              /\ r.access_token # procs[p].token_record.access_token
              /\ r.refresh_token # procs[p].token_record.refresh_token
  /\ ~(response.endpoint = "token" /\ response.detail = "IntegrityError")

\* C25: a refresh token is redeemable at most once, also under concurrency.
\* Of the refresh_access_token calls that interleave with the same valid
\* refresh token and client, at most one returns a new pair: no refresh token
\* value has given rise to two pairs.
C25_RefreshRedeemedOnce ==
  \A r \in tokens :
    r.refresh_token \in DOMAIN granted => granted[r.refresh_token] <= 1

\* C26: no token pair is minted for a principal who is inactive or unapproved
\* at minting time.  Whenever create_tokens, called by the authorization_code
\* grant or by the refresh_token grant, reads the user and goes on to sign and
\* insert a pair, the user is active and approved.
C26_MintOnlyForValidUsers ==
  [][\A p \in Procs :
       (create_tokens_select(p) /\ procs'[p].pc = "create_tokens_commit")
         => /\ users[procs[p].user_id].exists
            /\ users[procs[p].user_id].is_active
            /\ users[procs[p].user_id].is_approved
    ]_vars

\* C27: once initial setup has completed, setup never becomes available
\* again.  In every state reached through create_user, update_user,
\* reject_user and delete_user, is_setup_required returns false without
\* error and the setup endpoints answer 403.
C27_SetupStaysCompleted ==
  /\ is_setup_required(users) = "False"
  /\ response.endpoint \in {"setup_status", "initialize", "generate_credentials"}
       => response.status = 403
  /\ response.endpoint = "check_setup_required"
       => (response.status = 200 /\ response.detail = "False")

\* C28: identity resolution is unambiguous.  In every user store reached
\* through registration and admin user creation, get_current_user maps each
\* identifier, an email or a username, to at most one user without failing,
\* and GET /auth/userinfo never answers 500.
C28_IdentityUnambiguous ==
  /\ \A u \in AllUserIds :
       /\ get_current_user(users, EmailOf(u), Null).result # "MultipleResultsFound"
       /\ get_current_user(users, Null, UsernameOf(u)).result # "MultipleResultsFound"
  /\ response.endpoint = "userinfo" => response.status # 500

\* C29: a pair minted by the refresh_token grant carries the user, client
\* and scope of the pair it replaces, and the lifetimes the
\* authorization_code grant uses: the configured jwt_access_token_expire and
\* jwt_refresh_token_expire, whatever their values.
C29_RefreshKeepsGrant ==
  [][\A p \in Procs :
       (create_tokens_select(p) /\ procs[p].grant_type = "refresh_token"
          /\ procs'[p].pc = "create_tokens_commit")
       => LET new == procs'[p].token_record IN
          /\ \A old \in tokens :
               old.refresh_token = procs[p].subject
               => /\ new.user_id = old.user_id
                  /\ new.client_id = old.client_id
                  /\ new.scope = old.scope
          /\ new.expires_at = now + settings.jwt_access_token_expire
          /\ new.refresh_expires_at = now + settings.jwt_refresh_token_expire]_vars

\* C30: every authorization code in the store was issued for a client_id
\* that resolves to a registered client, and a login submission reaches the
\* issuing of a code only for a registered client and for a user who exists
\* and is active and approved at that time.
C30_CodesForRegisteredClients ==
  /\ [](\A r \in authCodes : Found(get_client(r.client_id)))
  /\ [][\A p \in Procs :
          (procs[p] = Idle /\ procs'[p].pc = "create_authorization_code_commit")
          => /\ Found(get_client(procs'[p].auth_code.client_id))
             /\ users[procs'[p].auth_code.user_id].exists
             /\ users[procs'[p].auth_code.user_id].is_active
             /\ users[procs'[p].auth_code.user_id].is_approved]_vars

====
